---- MODULE Spec2Model ----
(***************************************************************************)
(* Credential lifecycle and abuse mitigation of the FCMCS member portal:   *)
(* login with brute-force lockout (routes/auth.js, failedLoginTracker),    *)
(* OTP based passcode recovery with request rate limiting                  *)
(* (routes/auth.js, utils/tempPasscodeTracker.js) and authenticated        *)
(* passcode reset.                                                         *)
(*                                                                         *)
(* Conventions                                                             *)
(*  - A JavaScript string is a sequence of one-character strings; the      *)
(*    empty sequence stands for "" as well as for null/undefined, which    *)
(*    the handlers only ever test for truthiness.                          *)
(*  - An optional value (a row, a token, a timestamp) is a sequence of     *)
(*    length 0 or 1.                                                       *)
(*  - Time is Date.now() in whole minutes.                                 *)
(*  - A route handler runs to its next await in one step; the requests     *)
(*    that are suspended at an await are the elements of the bag inflight. *)
(***************************************************************************)
EXTENDS Bags, FiniteSets, Integers, Sequences, TLC

VARIABLES
    now,             \* Date.now(), in minutes
    failedAttempts,  \* failedLoginTracker: Map username -> {count, lastAttempt}
    resendCounts,    \* tempPasscodeTracker: Map pl -> {count, windowStart}
    db,              \* Internetclients: URid -> mutable columns
    inflight,        \* bag of requests suspended at an await
    lastResp,        \* the response sent by the step just taken, if any
    outbox,          \* the mail service: OTP e-mails handed over, the latest one's code
    session,         \* environment: the token the client kept from its last login
    streak,          \* history: consecutive failed logins per identifier
    reqs             \* history: OTP requests and OTPs per identifier and hour

vars ==
    <<now, failedAttempts, resendCounts, db, inflight, lastResp, outbox, session,
      streak, reqs>>

----------------------------------------------------------------------------
(* Bounds of the model *)

MaxInFlight == 2
MaxTimeLogin == 17
MaxTimeIssue == 1
MaxTimeRate == 62
MaxRequests == 5
MaxTimeRecover == 11
MaxIdLen == 4
MaxHandleLen == 4
MaxTimeCounters == 61
MaxTimeTrickle == 46
MaxTimeSupport == 16
MaxTimeReplace == 5
MaxTimeOnce == 11

----------------------------------------------------------------------------
(* Program constants *)

MAX_ATTEMPTS == 7
RESET_TIME == 15
RESEND_WINDOW == 60
MAX_RESENDS_PER_HOUR == 3
OTP_EXPIRY_MINUTES == 10
MIN_PASSCODE_LENGTH == 6
TOKEN_TTL == 1440

----------------------------------------------------------------------------
(* Strings *)

None == <<>>
Some(v) == <<v>>
Truthy(s) == s # <<>>

Digits == {"0", "1", "2", "3", "4", "5", "6", "7", "8", "9"}

IsSpace(c) == c = " "

RECURSIVE TrimLeft(_)
TrimLeft(s) ==
    IF s = <<>> THEN <<>>
    ELSE IF IsSpace(Head(s)) THEN TrimLeft(Tail(s)) ELSE s

RECURSIVE TrimRight(_)
TrimRight(s) ==
    IF s = <<>> THEN <<>>
    ELSE IF IsSpace(s[Len(s)]) THEN TrimRight(SubSeq(s, 1, Len(s) - 1)) ELSE s

Trim(s) == TrimRight(TrimLeft(s))

\* mutant: splits at the first separator only
Split_once(s, sep) ==
    LET at == {i \in 1..Len(s) : s[i] = sep}
    IN  IF at = {} THEN << s >>
        ELSE LET k == CHOOSE i \in at : \A j \in at : i <= j
             IN  << SubSeq(s, 1, k - 1), SubSeq(s, k + 1, Len(s)) >>

\* String.prototype.split(sep) for a one-character separator
RECURSIVE Split(_, _)
Split(s, sep) ==
    IF s = <<>> THEN << <<>> >>
    ELSE LET rest == Split(Tail(s), sep)
         IN  IF Head(s) = sep
             THEN << <<>> >> \o rest
             ELSE << <<Head(s)>> \o Head(rest) >> \o Tail(rest)

\* SQL LIKE: % matches any run of characters, _ any one character
RECURSIVE LikeMatch(_, _)
LikeMatch(p, s) ==
    IF p = <<>> THEN s = <<>>
    ELSE IF Head(p) = "%"
         THEN LikeMatch(Tail(p), s) \/ (s # <<>> /\ LikeMatch(p, Tail(s)))
         ELSE /\ s # <<>>
              /\ (Head(p) = "_" \/ Head(p) = Head(s))
              /\ LikeMatch(Tail(p), Tail(s))

\* bcrypt.hash / bcrypt.compare: a one-way image that only equal inputs share
Hash(x) == <<"bcrypt", x>>
BcryptCompare(x, h) == h = Hash(x)

Max(a, b) == IF a > b THEN a ELSE b

----------------------------------------------------------------------------
(* The record store (external): table Internetclients.  The columns the     *)
(* handlers never write are fixed here or set in the initial state (Email); *)
(* Passcode, ResetOTPHash and ResetOTPExpiresAt change.  The display       *)
(* columns (Title, Surname, OtherNames) only feed response payloads and    *)
(* are left out.                                                           *)

MemberURid == 101
MemberPL == <<"2", "4", "3", "2">>
MemberUserName ==
    <<"T", "I", "9", "8", "7", "5", "/", "2", "4", "3", "2", ";", "m", "@", "x">>
MemberEmail == <<"m", "@", "x">>
\* the member's phone number (README: the default passcode), kept in the
\* personal data table, column PhoneNo
MemberPhone == <<"0", "8", "0", "1", "2", "3", "4">>

\* the rows of the table are the domain of db
UserNameOf(u) == MemberUserName
EmailOf(u) == db[u].Email
PhoneOf(u) == MemberPhone

PassA == <<"s", "e", "c", "r", "e", "t">>
PassB == <<"l", "e", "t", "m", "e", "i", "n">>
PassShort == <<"a", "b", "c">>

\* the row as SELECT URid, UserName, Passcode, Email, ResetOTPHash,
\* ResetOTPExpiresAt returns it
SelectedRow(u) ==
    [URid |-> u,
     UserName |-> UserNameOf(u),
     Passcode |-> db[u].Passcode,
     Email |-> EmailOf(u),
     ResetOTPHash |-> db[u].ResetOTPHash,
     ResetOTPExpiresAt |-> db[u].ResetOTPExpiresAt]

\* user.<column>: undefined when the column was not selected
Column(user, name) == IF name \in DOMAIN user THEN user[name] ELSE None

\* the possible values of result.recordset[0] || null: SELECT has no ORDER BY
fetchUserByPL(pl) ==
    LET pattern == <<"%", "/">> \o pl \o <<";", "%">>
        hits == {u \in DOMAIN db : LikeMatch(pattern, UserNameOf(u))}
    IN  IF hits = {} THEN {None} ELSE {Some(SelectedRow(u)) : u \in hits}

\* executeQuery either completes or throws
DbOutcomes == {"ok", "error"}

----------------------------------------------------------------------------
(* parsePLFromUsername *)

\* mutant: the second part is returned as it is
parsePLFromUsername_raw(username) ==
    IF ~Truthy(username) THEN None
    ELSE LET parts == Split(Trim(username), "/")
         IN  IF Len(parts) < 2 THEN None ELSE parts[2]

parsePLFromUsername(username) ==
    IF ~Truthy(username) THEN None
    ELSE LET parts == Split(Trim(username), "/")
         IN  IF Len(parts) < 2 THEN None ELSE Trim(parts[2])

HandleMember == <<"T", "I", "9", "8", "7", "5", "/", "2", "4", "3", "2">>
HandleNoSlash == <<"2", "4", "3", "2">>
Handles == {HandleMember, HandleNoSlash}

PLs == {parsePLFromUsername(h) : h \in Handles} \ {None}

\* the handles a caller may type: up to MaxHandleLen letters, blanks and slashes
HandleChars == {"A", " ", "/"}
HandleInputs == UNION {[1..n -> HandleChars] : n \in 0..MaxHandleLen} \cup Handles

\* where the first "/" of a handle is (0: nowhere), what follows it, and what
\* follows it up to the next "/"
FirstSlash(h) ==
    LET at == {i \in 1..Len(h) : h[i] = "/"}
    IN  IF at = {} THEN 0 ELSE CHOOSE i \in at : \A j \in at : i <= j
AfterFirstSlash(h) == SubSeq(h, FirstSlash(h) + 1, Len(h))
SegmentAfterFirstSlash(h) ==
    LET rest == AfterFirstSlash(h)
    IN  IF FirstSlash(rest) = 0 THEN rest ELSE SubSeq(rest, 1, FirstSlash(rest) - 1)

\* the handles without a "/" or with nothing but blanks after the first "/"
BadHandles ==
    {h \in HandleInputs :
        FirstSlash(h) = 0 \/ Trim(SegmentAfterFirstSlash(h)) = <<>>}

----------------------------------------------------------------------------
(* failedLoginTracker: each operation returns its result and the Map as it  *)
(* leaves it (a read deletes an expired entry).                            *)

MapSet(m, k, v) == [x \in DOMAIN m \cup {k} |-> IF x = k THEN v ELSE m[x]]
MapDelete(m, k) == [x \in DOMAIN m \ {k} |-> m[x]]

\* mutant: the entry already expires when exactly RESET_TIME has passed
getFailedAttempts_ge(m, username, t) ==
    IF username \notin DOMAIN m THEN [ret |-> 0, map |-> m]
    ELSE IF t - m[username].lastAttempt >= RESET_TIME
         THEN [ret |-> 0, map |-> MapDelete(m, username)]
         ELSE [ret |-> m[username].count, map |-> m]

getFailedAttempts(m, username, t) ==
    IF username \notin DOMAIN m THEN [ret |-> 0, map |-> m]
    ELSE IF t - m[username].lastAttempt > RESET_TIME
         THEN [ret |-> 0, map |-> MapDelete(m, username)]
         ELSE [ret |-> m[username].count, map |-> m]

\* mutant: a failure recorded in the same instant as another overwrites it
incrementFailedAttempts_lossy(m, username, t) ==
    LET current == getFailedAttempts(m, username, t)
        seen == IF username \in DOMAIN current.map
                   /\ current.map[username].lastAttempt = t
                THEN current.ret - 1 ELSE current.ret
    IN  MapSet(current.map, username, [count |-> seen + 1, lastAttempt |-> t])

\* mutant: increments the stored count without the expiry check
incrementFailedAttempts_raw(m, username, t) ==
    MapSet(m, username,
           [count |-> (IF username \in DOMAIN m THEN m[username].count ELSE 0) + 1,
            lastAttempt |-> t])

\* mutant: a live entry keeps the time of the failure that opened it
incrementFailedAttempts_anchored(m, username, t) ==
    LET current == getFailedAttempts(m, username, t)
    IN  MapSet(current.map, username,
               [count |-> current.ret + 1,
                lastAttempt |-> IF username \in DOMAIN current.map
                                THEN current.map[username].lastAttempt ELSE t])

incrementFailedAttempts(m, username, t) ==
    LET current == getFailedAttempts(m, username, t)
    IN  MapSet(current.map, username,
               [count |-> current.ret + 1, lastAttempt |-> t])

\* mutant: the entry is kept
resetFailedAttempts_noop(m, username) == m

resetFailedAttempts(m, username) == MapDelete(m, username)

\* mutant: blocks one attempt late
isBlocked_gt(m, username, t) ==
    LET g == getFailedAttempts(m, username, t)
    IN  [ret |-> g.ret > MAX_ATTEMPTS, map |-> g.map]

isBlocked(m, username, t) ==
    LET g == getFailedAttempts(m, username, t)
    IN  [ret |-> g.ret >= MAX_ATTEMPTS, map |-> g.map]

----------------------------------------------------------------------------
(* tempPasscodeTracker (the OTP rate limiter): as above, each operation    *)
(* returns its result and the Map as it leaves it.  waitTime is            *)
(* Math.ceil(ms / 60000), the whole minutes this model counts in.          *)

\* mutant: a spent quota still allows a request
canResend_lenient(m, pl, t) ==
    IF pl \notin DOMAIN m \/ t - m[pl].windowStart > RESEND_WINDOW
    THEN [canResend |-> TRUE, remainingResends |-> MAX_RESENDS_PER_HOUR,
          waitTime |-> 0,
          map |-> IF pl \in DOMAIN m THEN MapDelete(m, pl) ELSE m]
    ELSE LET remaining == MAX_RESENDS_PER_HOUR - m[pl].count
         IN  [canResend |-> remaining >= 0,
              remainingResends |-> Max(0, remaining),
              waitTime |-> m[pl].windowStart + RESEND_WINDOW - t,
              map |-> m]

canResend(m, pl, t) ==
    IF pl \notin DOMAIN m
    THEN [canResend |-> TRUE, remainingResends |-> MAX_RESENDS_PER_HOUR,
          waitTime |-> 0, map |-> m]
    ELSE IF t - m[pl].windowStart > RESEND_WINDOW
    THEN [canResend |-> TRUE, remainingResends |-> MAX_RESENDS_PER_HOUR,
          waitTime |-> 0, map |-> MapDelete(m, pl)]
    ELSE LET remaining == MAX_RESENDS_PER_HOUR - m[pl].count
         IN  [canResend |-> remaining > 0,
              remainingResends |-> Max(0, remaining),
              waitTime |-> m[pl].windowStart + RESEND_WINDOW - t,
              map |-> m]

\* mutant: every request restarts the window
incrementResendCount_sliding(m, pl, t) ==
    IF pl \notin DOMAIN m \/ t - m[pl].windowStart > RESEND_WINDOW
    THEN MapSet(m, pl, [count |-> 1, windowStart |-> t])
    ELSE MapSet(m, pl, [count |-> m[pl].count + 1, windowStart |-> t])

\* mutant: the window is already over when exactly RESEND_WINDOW has passed
incrementResendCount_ge(m, pl, t) ==
    IF pl \notin DOMAIN m \/ t - m[pl].windowStart >= RESEND_WINDOW
    THEN MapSet(m, pl, [count |-> 1, windowStart |-> t])
    ELSE [m EXCEPT ![pl].count = @ + 1]

incrementResendCount(m, pl, t) ==
    IF pl \notin DOMAIN m \/ t - m[pl].windowStart > RESEND_WINDOW
    THEN MapSet(m, pl, [count |-> 1, windowStart |-> t])
    ELSE [m EXCEPT ![pl].count = @ + 1]

----------------------------------------------------------------------------
(* Requests and responses *)

Req(flow, pc, pl) ==
    [flow |-> flow, pc |-> pc, pl |-> pl, passcode |-> None, otp |-> None,
     newPasscode |-> None, user |-> None, code |-> None, expiresAt |-> None]

Resp(flow, at, pl, status, message) ==
    [flow |-> flow, at |-> at, pl |-> pl, status |-> status,
     success |-> status < 400, message |-> message,
     attemptsRemaining |-> None, token |-> None,
     passcode |-> None, newPasscode |-> None, otp |-> None, username |-> None]

NoResp == Resp("none", "none", None, 0, "none")

Suspended(flow, pc) == {r \in BagToSet(inflight) : r.flow = flow /\ r.pc = pc}
Suspend(r) == inflight (+) SetToBag({r})
Resume(r) == inflight (-) SetToBag({r})
Move(r, r2) == (inflight (-) SetToBag({r})) (+) SetToBag({r2})

\* jwt.sign(payload, secret, {expiresIn, issuer})
JwtSign(odUserId, pl, t) ==
    [odUserId |-> odUserId, pl |-> pl, iss |-> "fcmcs-api", exp |-> t + TOKEN_TTL,
     sig |-> "JWT_SECRET"]

\* jwt.verify(token, secret, {issuer}): signature, expiry and issuer
JwtVerify(token, t) ==
    token.sig = "JWT_SECRET" /\ token.iss = "fcmcs-api" /\ t < token.exp

----------------------------------------------------------------------------
(* History: n, the consecutive failed logins of an identifier, each within *)
(* RESET_TIME of the one before, since its last successful login; last,    *)
(* the time of the latest of them; ended, the length of the streak that    *)
(* the latest login outcome brought to an end (0 if it ended none).        *)

StreakFail(pl) ==
    LET continues == streak[pl].n > 0 /\ now - streak[pl].last <= RESET_TIME
    IN  [streak EXCEPT ![pl] =
            [n |-> IF continues THEN @.n + 1 ELSE 1,
             last |-> now,
             ended |-> IF continues THEN 0 ELSE @.n]]

StreakClear(pl) == [streak EXCEPT ![pl] = [n |-> 0, last |-> 0, ended |-> @.n]]

(* History: an identifier's OTP requests by the hour: first, the time of   *)
(* the request that opened the hour; n, the requests recorded in it; otps, *)
(* the OTPs stored in it.  A request recorded more than RESEND_WINDOW      *)
(* after first opens the next hour.                                        *)

RequestRecorded(pl) ==
    [reqs EXCEPT ![pl] =
        IF @.n = 0 \/ now - @.first > RESEND_WINDOW
        THEN [n |-> 1, first |-> now, otps |-> 0]
        ELSE [@ EXCEPT !.n = @ + 1]]

OtpStored(pl) == [reqs EXCEPT ![pl].otps = @ + 1]

----------------------------------------------------------------------------
(* POST /login *)

\* mutant: attemptsRemaining is computed before the failure is recorded
LoginFailure_stale(r, at) ==
    LET g == getFailedAttempts(failedAttempts, r.pl, now)
        remaining == MAX_ATTEMPTS - g.ret
    IN  /\ failedAttempts' = incrementFailedAttempts(failedAttempts, r.pl, now)
        /\ lastResp' = [Resp("login", at, r.pl, 401, "Invalid credentials")
                          EXCEPT !.attemptsRemaining =
                                     Some(IF remaining > 0 THEN remaining ELSE 0),
                                 !.passcode = r.passcode]
        /\ streak' = StreakFail(r.pl)

\* the 401 "Invalid credentials" branch: record the failure, report what is left
LoginFailure(r, at) ==
    LET m1 == incrementFailedAttempts(failedAttempts, r.pl, now)
        g == getFailedAttempts(m1, r.pl, now)
        remaining == MAX_ATTEMPTS - g.ret
    IN  /\ failedAttempts' = g.map
        /\ lastResp' = [Resp("login", at, r.pl, 401, "Invalid credentials")
                          EXCEPT !.attemptsRemaining =
                                     Some(IF remaining > 0 THEN remaining ELSE 0),
                                 !.passcode = r.passcode]
        /\ streak' = StreakFail(r.pl)

\* mutant: a Login rejected at the gate counts as activity on the entry
LoginStart_extends(username, passcode) ==
    LET pl == parsePLFromUsername(username)
        gate == isBlocked(failedAttempts, pl, now)
    IN  /\ UNCHANGED <<now, resendCounts, db, outbox, session, streak, reqs>>
        /\ IF ~Truthy(username) \/ ~Truthy(passcode)
           THEN /\ lastResp' = Resp("login", "start", None, 400,
                                    "Username and passcode are required")
                /\ UNCHANGED <<failedAttempts, inflight>>
           ELSE IF ~Truthy(pl)
           THEN /\ lastResp' = Resp("login", "start", None, 400,
                                    "Invalid username format. Expected: IPPIS/PL")
                /\ UNCHANGED <<failedAttempts, inflight>>
           ELSE IF gate.ret
           THEN /\ failedAttempts' = MapSet(gate.map, pl,
                                          [gate.map[pl] EXCEPT !.lastAttempt = now])
                /\ lastResp' = [Resp("login", "start", pl, 429,
                                     "Too many failed attempts. Try again in 15 minutes.")
                                  EXCEPT !.passcode = passcode]
                /\ UNCHANGED inflight
           ELSE /\ BagCardinality(inflight) < MaxInFlight
                /\ failedAttempts' = gate.map
                /\ inflight' = Suspend([Req("login", "fetch", pl)
                                           EXCEPT !.passcode = passcode])
                /\ lastResp' = NoResp

\* validation, parse and the brute force gate, up to await fetchUserByPL
LoginStart(username, passcode) ==
    LET pl == parsePLFromUsername(username)
        gate == isBlocked(failedAttempts, pl, now)
    IN  /\ UNCHANGED <<now, resendCounts, db, outbox, session, streak, reqs>>
        /\ IF ~Truthy(username) \/ ~Truthy(passcode)
           THEN /\ lastResp' = Resp("login", "start", None, 400,
                                    "Username and passcode are required")
                /\ UNCHANGED <<failedAttempts, inflight>>
           ELSE IF ~Truthy(pl)
           THEN /\ lastResp' = Resp("login", "start", None, 400,
                                    "Invalid username format. Expected: IPPIS/PL")
                /\ UNCHANGED <<failedAttempts, inflight>>
           ELSE IF gate.ret
           THEN /\ failedAttempts' = gate.map
                /\ lastResp' = [Resp("login", "start", pl, 429,
                                     "Too many failed attempts. Try again in 15 minutes.")
                                  EXCEPT !.passcode = passcode]
                /\ UNCHANGED inflight
           ELSE /\ BagCardinality(inflight) < MaxInFlight
                /\ failedAttempts' = gate.map
                /\ inflight' = Suspend([Req("login", "fetch", pl)
                                           EXCEPT !.passcode = passcode])
                /\ lastResp' = NoResp

\* mutant: an unknown identifier is told so, and not counted
LoginFetched_tells(r, outcome, user) ==
    /\ r \in Suspended("login", "fetch")
    /\ UNCHANGED <<now, resendCounts, db, outbox, session, reqs>>
    /\ IF outcome = "error"
       THEN /\ inflight' = Resume(r)
            /\ lastResp' = Resp("login", "fetch", r.pl, 500,
                                "Authentication service unavailable")
            /\ UNCHANGED <<failedAttempts, streak>>
       ELSE IF user = None
       THEN /\ inflight' = Resume(r)
            /\ lastResp' = Resp("login", "fetch", r.pl, 404, "User not found")
            /\ UNCHANGED <<failedAttempts, streak>>
       ELSE IF ~Truthy(user[1].Passcode)
       THEN /\ inflight' = Resume(r)
            /\ lastResp' = Resp("login", "fetch", r.pl, 401,
                                "Account not activated. Please contact support.")
            /\ UNCHANGED <<failedAttempts, streak>>
       ELSE /\ inflight' = Move(r, [r EXCEPT !.pc = "compare", !.user = user])
            /\ lastResp' = NoResp
            /\ UNCHANGED <<failedAttempts, streak>>

\* mutant: an unknown identifier is rejected but the failure is not recorded
LoginFetched_uncounted(r, outcome, user) ==
    /\ r \in Suspended("login", "fetch")
    /\ UNCHANGED <<now, resendCounts, db, outbox, session, reqs>>
    /\ IF outcome = "error"
       THEN /\ inflight' = Resume(r)
            /\ lastResp' = Resp("login", "fetch", r.pl, 500,
                                "Authentication service unavailable")
            /\ UNCHANGED <<failedAttempts, streak>>
       ELSE IF user = None
       THEN /\ inflight' = Resume(r)
            /\ lastResp' = [Resp("login", "fetch", r.pl, 401, "Invalid credentials")
                              EXCEPT !.passcode = r.passcode]
            /\ UNCHANGED <<failedAttempts, streak>>
       ELSE IF ~Truthy(user[1].Passcode)
       THEN /\ inflight' = Resume(r)
            /\ lastResp' = Resp("login", "fetch", r.pl, 401,
                                "Account not activated. Please contact support.")
            /\ UNCHANGED <<failedAttempts, streak>>
       ELSE /\ inflight' = Move(r, [r EXCEPT !.pc = "compare", !.user = user])
            /\ lastResp' = NoResp
            /\ UNCHANGED <<failedAttempts, streak>>

\* mutant: a Login against a record that is not activated counts as a failure
LoginFetched_strict(r, outcome, user) ==
    /\ r \in Suspended("login", "fetch")
    /\ UNCHANGED <<now, resendCounts, db, outbox, session, reqs>>
    /\ IF outcome = "error"
       THEN /\ inflight' = Resume(r)
            /\ lastResp' = Resp("login", "fetch", r.pl, 500,
                                "Authentication service unavailable")
            /\ UNCHANGED <<failedAttempts, streak>>
       ELSE IF user = None
       THEN /\ inflight' = Resume(r)
            /\ LoginFailure(r, "fetch")
       ELSE IF ~Truthy(user[1].Passcode)
       THEN /\ inflight' = Resume(r)
            /\ failedAttempts' = incrementFailedAttempts(failedAttempts, r.pl, now)
            /\ lastResp' = Resp("login", "fetch", r.pl, 401,
                                "Account not activated. Please contact support.")
            /\ streak' = StreakFail(r.pl)
       ELSE /\ inflight' = Move(r, [r EXCEPT !.pc = "compare", !.user = user])
            /\ lastResp' = NoResp
            /\ UNCHANGED <<failedAttempts, streak>>

\* fetchUserByPL resolves: unknown user, not activated, or on to bcrypt.compare
LoginFetched(r, outcome, user) ==
    /\ r \in Suspended("login", "fetch")
    /\ UNCHANGED <<now, resendCounts, db, outbox, session, reqs>>
    /\ IF outcome = "error"
       THEN /\ inflight' = Resume(r)
            /\ lastResp' = Resp("login", "fetch", r.pl, 500,
                                "Authentication service unavailable")
            /\ UNCHANGED <<failedAttempts, streak>>
       ELSE IF user = None
       THEN /\ inflight' = Resume(r)
            /\ LoginFailure(r, "fetch")
       ELSE IF ~Truthy(user[1].Passcode)
       THEN /\ inflight' = Resume(r)
            /\ lastResp' = Resp("login", "fetch", r.pl, 401,
                                "Account not activated. Please contact support.")
            /\ UNCHANGED <<failedAttempts, streak>>
       ELSE /\ inflight' = Move(r, [r EXCEPT !.pc = "compare", !.user = user])
            /\ lastResp' = NoResp
            /\ UNCHANGED <<failedAttempts, streak>>

\* bcrypt.compare resolves: failure, or reset the counter and sign the token
\* (keep: whether the client keeps the token for later requests)
LoginCompared(r, keep) ==
    /\ r \in Suspended("login", "compare")
    /\ UNCHANGED <<now, resendCounts, db, outbox, reqs>>
    /\ inflight' = Resume(r)
    /\ IF ~BcryptCompare(r.passcode, r.user[1].Passcode)
       THEN LoginFailure(r, "compare") /\ UNCHANGED session
       ELSE /\ failedAttempts' = resetFailedAttempts(failedAttempts, r.pl)
            /\ session' = IF keep THEN Some(JwtSign(r.user[1].URid, r.pl, now))
                                  ELSE session
            /\ lastResp' = [Resp("login", "compare", r.pl, 200, "Login successful")
                              EXCEPT !.token = Some(JwtSign(r.user[1].URid, r.pl, now)),
                                     !.passcode = r.passcode]
            /\ streak' = StreakClear(r.pl)

Login(passcodes, keeps) ==
    \/ \E username \in Handles, passcode \in passcodes :
           LoginStart(username, passcode)
    \/ \E r \in BagToSet(inflight), outcome \in DbOutcomes :
           \E user \in fetchUserByPL(r.pl) : LoginFetched(r, outcome, user)
    \/ \E r \in BagToSet(inflight), keep \in keeps : LoginCompared(r, keep)

----------------------------------------------------------------------------
(* OTP issuance: POST /forgot-passcode and POST /resend-otp.  The awaits on *)
(* bcrypt.hash have no effect of their own and are taken with the step     *)
(* before them.  services/email is outside the sources: by the interface   *)
(* description a send reports success or failure and never throws, so the  *)
(* handler answers the same either way.                                    *)

CodeA == <<"0", "0", "0", "0", "0", "0">>
CodeB == <<"1", "2", "3", "4", "5", "6">>
CodeShort == <<"1", "2", "3">>
CodeLong == <<"0", "0", "0", "0", "0", "0", "0">>
CodeAlpha == <<"0", "0", "0", "0", "0", "x">>

\* the values generateOTP may return
generateOTP == {CodeA, CodeB}

GenericForgot == "If the account exists, a reset code has been sent."
GenericResend == "If a valid request exists, a new code has been sent."
Unavailable == "Service temporarily unavailable"

\* mutant: the request is not counted at the gate
ForgotStart_uncounted(username) ==
    LET pl == parsePLFromUsername(username)
        resendStatus == canResend(resendCounts, pl, now)
    IN  /\ UNCHANGED <<now, failedAttempts, db, outbox, session, streak>>
        /\ IF ~Truthy(username)
           THEN /\ lastResp' = Resp("forgot", "start", None, 400, "Username is required")
                /\ UNCHANGED <<resendCounts, inflight, reqs>>
           ELSE IF ~Truthy(pl)
           THEN /\ lastResp' = Resp("forgot", "start", None, 400, "Invalid username format")
                /\ UNCHANGED <<resendCounts, inflight, reqs>>
           ELSE IF ~resendStatus.canResend
           THEN /\ resendCounts' = resendStatus.map
                /\ lastResp' = Resp("forgot", "start", pl, 429, "Too many requests.")
                /\ UNCHANGED <<inflight, reqs>>
           ELSE /\ BagCardinality(inflight) < MaxInFlight
                /\ resendCounts' = resendStatus.map
                /\ UNCHANGED reqs
                /\ inflight' = Suspend(Req("forgot", "fetch", pl))
                /\ lastResp' = NoResp

\* validation, parse, the rate limit gate and the count, up to await fetchUserByPL
ForgotStart(username) ==
    LET pl == parsePLFromUsername(username)
        resendStatus == canResend(resendCounts, pl, now)
    IN  /\ UNCHANGED <<now, failedAttempts, db, outbox, session, streak>>
        /\ IF ~Truthy(username)
           THEN /\ lastResp' = Resp("forgot", "start", None, 400, "Username is required")
                /\ UNCHANGED <<resendCounts, inflight, reqs>>
           ELSE IF ~Truthy(pl)
           THEN /\ lastResp' = Resp("forgot", "start", None, 400, "Invalid username format")
                /\ UNCHANGED <<resendCounts, inflight, reqs>>
           ELSE IF ~resendStatus.canResend
           THEN /\ resendCounts' = resendStatus.map
                /\ lastResp' = Resp("forgot", "start", pl, 429, "Too many requests.")
                /\ UNCHANGED <<inflight, reqs>>
           ELSE /\ BagCardinality(inflight) < MaxInFlight
                /\ resendCounts' = incrementResendCount(resendStatus.map, pl, now)
                /\ reqs' = RequestRecorded(pl)
                /\ inflight' = Suspend(Req("forgot", "fetch", pl))
                /\ lastResp' = NoResp

\* mutant: an identifier without a record is told so
ForgotFetched_tells(r, outcome, user, otp) ==
    /\ r \in Suspended("forgot", "fetch")
    /\ UNCHANGED <<now, failedAttempts, resendCounts, db, outbox, session, streak, reqs>>
    /\ IF outcome = "error"
       THEN /\ inflight' = Resume(r)
            /\ lastResp' = Resp("forgot", "fetch", r.pl, 500, Unavailable)
       ELSE IF user = None
       THEN /\ inflight' = Resume(r)
            /\ lastResp' = Resp("forgot", "fetch", r.pl, 404, "Account not found")
       ELSE IF ~Truthy(user[1].Email)
       THEN /\ inflight' = Resume(r)
            /\ lastResp' = Resp("forgot", "fetch", r.pl, 200, GenericForgot)
       ELSE /\ inflight' = Move(r, [r EXCEPT !.pc = "persist", !.user = user,
                                             !.code = otp,
                                             !.expiresAt = Some(now + OTP_EXPIRY_MINUTES)])
            /\ lastResp' = NoResp

\* fetchUserByPL resolves: generic answer, or a new code on its way to the store
ForgotFetched(r, outcome, user, otp) ==
    /\ r \in Suspended("forgot", "fetch")
    /\ UNCHANGED <<now, failedAttempts, resendCounts, db, outbox, session, streak, reqs>>
    /\ IF outcome = "error"
       THEN /\ inflight' = Resume(r)
            /\ lastResp' = Resp("forgot", "fetch", r.pl, 500, Unavailable)
       ELSE IF user = None \/ ~Truthy(user[1].Email)
       THEN /\ inflight' = Resume(r)
            /\ lastResp' = Resp("forgot", "fetch", r.pl, 200, GenericForgot)
       ELSE /\ inflight' = Move(r, [r EXCEPT !.pc = "persist", !.user = user,
                                             !.code = otp,
                                             !.expiresAt = Some(now + OTP_EXPIRY_MINUTES)])
            /\ lastResp' = NoResp

\* validation, parse and the rate limit gate, up to await fetchUserByPL
ResendStart(username) ==
    LET pl == parsePLFromUsername(username)
        resendStatus == canResend(resendCounts, pl, now)
    IN  /\ UNCHANGED <<now, failedAttempts, db, outbox, session, streak, reqs>>
        /\ IF ~Truthy(username)
           THEN /\ lastResp' = Resp("resend", "start", None, 400, "Username is required")
                /\ UNCHANGED <<resendCounts, inflight>>
           ELSE IF ~Truthy(pl)
           THEN /\ lastResp' = Resp("resend", "start", None, 400, "Invalid username format")
                /\ UNCHANGED <<resendCounts, inflight>>
           ELSE IF ~resendStatus.canResend
           THEN /\ resendCounts' = resendStatus.map
                /\ lastResp' = Resp("resend", "start", pl, 429, "Too many requests.")
                /\ UNCHANGED inflight
           ELSE /\ BagCardinality(inflight) < MaxInFlight
                /\ resendCounts' = resendStatus.map
                /\ inflight' = Suspend(Req("resend", "fetch", pl))
                /\ lastResp' = NoResp

\* mutant: the request is counted as soon as the lookup has resolved
ResendFetched_counts(r, outcome, user, otp) ==
    /\ r \in Suspended("resend", "fetch")
    /\ UNCHANGED <<now, failedAttempts, db, outbox, session, streak>>
    /\ IF outcome = "error"
       THEN /\ inflight' = Resume(r)
            /\ lastResp' = Resp("resend", "fetch", r.pl, 500, Unavailable)
            /\ UNCHANGED <<resendCounts, reqs>>
       ELSE /\ resendCounts' = incrementResendCount(resendCounts, r.pl, now)
            /\ reqs' = RequestRecorded(r.pl)
            /\ IF user = None
               THEN /\ inflight' = Resume(r)
                    /\ lastResp' = Resp("resend", "fetch", r.pl, 200, GenericResend)
               ELSE IF ~Truthy(user[1].ResetOTPHash)
               THEN /\ inflight' = Resume(r)
                    /\ lastResp' = [Resp("resend", "fetch", r.pl, 200,
                                         "No active reset request found. Please use forgot-passcode first.")
                                      EXCEPT !.success = FALSE]
               ELSE IF ~Truthy(user[1].Email)
               THEN /\ inflight' = Resume(r)
                    /\ lastResp' = Resp("resend", "fetch", r.pl, 200, GenericResend)
               ELSE /\ inflight' = Move(r, [r EXCEPT !.pc = "persist", !.user = user,
                                                     !.code = otp,
                                                     !.expiresAt = Some(now + OTP_EXPIRY_MINUTES)])
                    /\ lastResp' = NoResp

\* mutant: a record with no OTP pending gets the generic answer
ResendFetched_generic(r, outcome, user, otp) ==
    /\ r \in Suspended("resend", "fetch")
    /\ UNCHANGED <<now, failedAttempts, db, outbox, session, streak>>
    /\ IF outcome = "error"
       THEN /\ inflight' = Resume(r)
            /\ lastResp' = Resp("resend", "fetch", r.pl, 500, Unavailable)
            /\ UNCHANGED <<resendCounts, reqs>>
       ELSE IF user = None \/ ~Truthy(user[1].ResetOTPHash) \/ ~Truthy(user[1].Email)
       THEN /\ inflight' = Resume(r)
            /\ lastResp' = Resp("resend", "fetch", r.pl, 200, GenericResend)
            /\ UNCHANGED <<resendCounts, reqs>>
       ELSE /\ resendCounts' = incrementResendCount(resendCounts, r.pl, now)
            /\ reqs' = RequestRecorded(r.pl)
            /\ inflight' = Move(r, [r EXCEPT !.pc = "persist", !.user = user,
                                             !.code = otp,
                                             !.expiresAt = Some(now + OTP_EXPIRY_MINUTES)])
            /\ lastResp' = NoResp

\* fetchUserByPL resolves: nothing to resend, or count the request and issue
ResendFetched(r, outcome, user, otp) ==
    /\ r \in Suspended("resend", "fetch")
    /\ UNCHANGED <<now, failedAttempts, db, outbox, session, streak>>
    /\ IF outcome = "error"
       THEN /\ inflight' = Resume(r)
            /\ lastResp' = Resp("resend", "fetch", r.pl, 500, Unavailable)
            /\ UNCHANGED <<resendCounts, reqs>>
       ELSE IF user = None
       THEN /\ inflight' = Resume(r)
            /\ lastResp' = Resp("resend", "fetch", r.pl, 200, GenericResend)
            /\ UNCHANGED <<resendCounts, reqs>>
       ELSE IF ~Truthy(user[1].ResetOTPHash)
       THEN /\ inflight' = Resume(r)
            /\ lastResp' = [Resp("resend", "fetch", r.pl, 200,
                                 "No active reset request found. Please use forgot-passcode first.")
                              EXCEPT !.success = FALSE]
            /\ UNCHANGED <<resendCounts, reqs>>
       ELSE IF ~Truthy(user[1].Email)
       THEN /\ inflight' = Resume(r)
            /\ lastResp' = Resp("resend", "fetch", r.pl, 200, GenericResend)
            /\ UNCHANGED <<resendCounts, reqs>>
       ELSE /\ resendCounts' = incrementResendCount(resendCounts, r.pl, now)
            /\ reqs' = RequestRecorded(r.pl)
            /\ inflight' = Move(r, [r EXCEPT !.pc = "persist", !.user = user,
                                             !.code = otp,
                                             !.expiresAt = Some(now + OTP_EXPIRY_MINUTES)])
            /\ lastResp' = NoResp

\* mutant: the e-mail is sent whether or not the UPDATE was applied
OtpPersisted_anyway(r, outcome) ==
    /\ r \in Suspended("forgot", "persist") \cup Suspended("resend", "persist")
    /\ UNCHANGED <<now, failedAttempts, resendCounts, outbox, session, streak>>
    /\ inflight' = Move(r, [r EXCEPT !.pc = "notify"])
    /\ lastResp' = NoResp
    /\ IF outcome = "error"
       THEN UNCHANGED <<db, reqs>>
       ELSE /\ db' = [db EXCEPT ![r.user[1].URid] =
                         [@ EXCEPT !.ResetOTPHash = Hash(r.code),
                                   !.ResetOTPExpiresAt = r.expiresAt]]
            /\ reqs' = OtpStored(r.pl)

\* mutant: a resend extends the life of the pending code instead of replacing it
OtpPersisted_extend(r, outcome) ==
    /\ r \in Suspended("forgot", "persist") \cup Suspended("resend", "persist")
    /\ UNCHANGED <<now, failedAttempts, resendCounts, outbox, session, streak>>
    /\ IF outcome = "error"
       THEN /\ inflight' = Resume(r)
            /\ lastResp' = Resp(r.flow, "persist", r.pl, 500, Unavailable)
            /\ UNCHANGED <<db, reqs>>
       ELSE /\ db' = [db EXCEPT ![r.user[1].URid] =
                         [@ EXCEPT !.ResetOTPHash =
                                       IF r.flow = "resend" /\ Truthy(@)
                                       THEN @ ELSE Hash(r.code),
                                   !.ResetOTPExpiresAt = r.expiresAt]]
            /\ reqs' = OtpStored(r.pl)
            /\ inflight' = Move(r, [r EXCEPT !.pc = "notify"])
            /\ lastResp' = NoResp

\* mutant: issuing an OTP also removes the passcode
OtpPersisted_wipe(r, outcome) ==
    /\ r \in Suspended("forgot", "persist") \cup Suspended("resend", "persist")
    /\ UNCHANGED <<now, failedAttempts, resendCounts, outbox, session, streak>>
    /\ IF outcome = "error"
       THEN /\ inflight' = Resume(r)
            /\ lastResp' = Resp(r.flow, "persist", r.pl, 500, Unavailable)
            /\ UNCHANGED <<db, reqs>>
       ELSE /\ db' = [db EXCEPT ![r.user[1].URid] =
                         [@ EXCEPT !.ResetOTPHash = Hash(r.code),
                                   !.ResetOTPExpiresAt = r.expiresAt,
                                   !.Passcode = None]]
            /\ reqs' = OtpStored(r.pl)
            /\ inflight' = Move(r, [r EXCEPT !.pc = "notify"])
            /\ lastResp' = NoResp

\* UPDATE ... SET ResetOTPHash, ResetOTPExpiresAt WHERE URid is applied, or fails
OtpPersisted(r, outcome) ==
    /\ r \in Suspended("forgot", "persist") \cup Suspended("resend", "persist")
    /\ UNCHANGED <<now, failedAttempts, resendCounts, outbox, session, streak>>
    /\ IF outcome = "error"
       THEN /\ inflight' = Resume(r)
            /\ lastResp' = Resp(r.flow, "persist", r.pl, 500, Unavailable)
            /\ UNCHANGED <<db, reqs>>
       ELSE /\ db' = [db EXCEPT ![r.user[1].URid] =
                         [@ EXCEPT !.ResetOTPHash = Hash(r.code),
                                   !.ResetOTPExpiresAt = r.expiresAt]]
            /\ reqs' = OtpStored(r.pl)
            /\ inflight' = Move(r, [r EXCEPT !.pc = "notify"])
            /\ lastResp' = NoResp

\* the UPDATE has resolved: sendOTPEmail(email, otp, userName), then the answer
OtpNotified(r) ==
    /\ r \in Suspended("forgot", "notify") \cup Suspended("resend", "notify")
    /\ UNCHANGED <<now, failedAttempts, resendCounts, db, session, streak, reqs>>
    /\ outbox' = [sent |-> outbox.sent + 1, code |-> r.code]
    /\ inflight' = Resume(r)
    /\ lastResp' = Resp(r.flow, "notify", r.pl, 200,
                        IF r.flow = "forgot" THEN GenericForgot ELSE GenericResend)

Forgot(codes) ==
    \/ \E username \in Handles : ForgotStart(username)
    \/ \E r \in BagToSet(inflight), outcome \in DbOutcomes, otp \in codes :
           \E user \in fetchUserByPL(r.pl) : ForgotFetched(r, outcome, user, otp)

Resend(codes) ==
    \/ \E username \in Handles : ResendStart(username)
    \/ \E r \in BagToSet(inflight), outcome \in DbOutcomes, otp \in codes :
           \E user \in fetchUserByPL(r.pl) : ResendFetched(r, outcome, user, otp)

Issue ==
    \/ \E r \in BagToSet(inflight), outcome \in DbOutcomes : OtpPersisted(r, outcome)
    \/ \E r \in BagToSet(inflight) : OtpNotified(r)

----------------------------------------------------------------------------
(* POST /verify-otp.  The await on bcrypt.compare and bcrypt.hash and the   *)
(* confirmation e-mail have no effect of their own and are taken with the  *)
(* steps around them.                                                      *)

\* /^\d{6}$/.test(otp)
IsOtpFormat(otp) == Len(otp) = 6 /\ \A i \in 1..Len(otp) : otp[i] \in Digits

\* user.Phone && newPasscode === user.Phone
IsPhoneNumber(user, newPasscode) ==
    Truthy(Column(user, "Phone")) /\ newPasscode = Column(user, "Phone")

\* mutant: the format of the OTP is not checked
VerifyStart_lax(username, otp, newPasscode) ==
    LET pl == parsePLFromUsername(username)
        Reject(message) == /\ lastResp' = [Resp("verify", "start", pl, 400, message)
                                             EXCEPT !.newPasscode = newPasscode, !.otp = otp]
                           /\ UNCHANGED inflight
    IN  /\ UNCHANGED <<now, failedAttempts, resendCounts, db, outbox, session, streak, reqs>>
        /\ IF ~Truthy(username) \/ ~Truthy(otp) \/ ~Truthy(newPasscode)
           THEN Reject("Username, OTP, and new passcode are required")
           ELSE IF ~Truthy(pl)
           THEN Reject("Invalid username format")
           ELSE IF Len(newPasscode) < MIN_PASSCODE_LENGTH
           THEN Reject("New passcode must be at least 6 characters")
           ELSE /\ BagCardinality(inflight) < MaxInFlight
                /\ inflight' = Suspend([Req("verify", "fetch", pl)
                                           EXCEPT !.otp = otp,
                                                  !.newPasscode = newPasscode])
                /\ lastResp' = NoResp

VerifyStart(username, otp, newPasscode) ==
    LET pl == parsePLFromUsername(username)
        Reject(message) == /\ lastResp' = [Resp("verify", "start", pl, 400, message)
                                             EXCEPT !.newPasscode = newPasscode, !.otp = otp]
                           /\ UNCHANGED inflight
    IN  /\ UNCHANGED <<now, failedAttempts, resendCounts, db, outbox, session, streak, reqs>>
        /\ IF ~Truthy(username) \/ ~Truthy(otp) \/ ~Truthy(newPasscode)
           THEN Reject("Username, OTP, and new passcode are required")
           ELSE IF ~Truthy(pl)
           THEN Reject("Invalid username format")
           ELSE IF ~IsOtpFormat(otp)
           THEN Reject("Invalid OTP format. Must be 6 digits.")
           ELSE IF Len(newPasscode) < MIN_PASSCODE_LENGTH
           THEN Reject("New passcode must be at least 6 characters")
           ELSE /\ BagCardinality(inflight) < MaxInFlight
                /\ inflight' = Suspend([Req("verify", "fetch", pl)
                                           EXCEPT !.otp = otp,
                                                  !.newPasscode = newPasscode])
                /\ lastResp' = NoResp

\* fetchUserByPL resolves: the checks on the stored OTP and the new passcode
VerifyFetched(r, outcome, user) ==
    LET Reject(status, message) ==
            /\ inflight' = Resume(r)
            /\ lastResp' = [Resp("verify", "fetch", r.pl, status, message)
                              EXCEPT !.newPasscode = r.newPasscode, !.otp = r.otp]
    IN  /\ r \in Suspended("verify", "fetch")
        /\ UNCHANGED <<now, failedAttempts, resendCounts, db, outbox, session, streak, reqs>>
        /\ IF outcome = "error"
           THEN Reject(500, Unavailable)
           ELSE IF user = None
           THEN Reject(400, "Invalid OTP or account not found")
           ELSE IF ~Truthy(user[1].ResetOTPHash)
           THEN Reject(400, "No reset request found. Please request a new OTP.")
           ELSE IF now > user[1].ResetOTPExpiresAt[1]
           THEN /\ inflight' = Move(r, [r EXCEPT !.pc = "clear", !.user = user])
                /\ lastResp' = NoResp
           ELSE IF ~BcryptCompare(r.otp, user[1].ResetOTPHash)
           THEN Reject(400, "Invalid OTP")
           ELSE IF IsPhoneNumber(user[1], r.newPasscode)
           THEN Reject(400, "New passcode cannot be your phone number")
           ELSE /\ inflight' = Move(r, [r EXCEPT !.pc = "update", !.user = user])
                /\ lastResp' = NoResp

\* mutant: the expired OTP is reported but left in the store
VerifyCleared_keep(r, outcome) ==
    /\ r \in Suspended("verify", "clear")
    /\ UNCHANGED <<now, failedAttempts, resendCounts, outbox, session, streak, reqs>>
    /\ inflight' = Resume(r)
    /\ UNCHANGED db
    /\ lastResp' = [Resp("verify", "clear", r.pl,
                         IF outcome = "error" THEN 500 ELSE 400,
                         IF outcome = "error" THEN Unavailable
                         ELSE "OTP has expired. Please request a new one.")
                      EXCEPT !.newPasscode = r.newPasscode, !.otp = r.otp]

\* UPDATE ... SET ResetOTPHash = NULL, ResetOTPExpiresAt = NULL is applied, or fails
VerifyCleared(r, outcome) ==
    /\ r \in Suspended("verify", "clear")
    /\ UNCHANGED <<now, failedAttempts, resendCounts, outbox, session, streak, reqs>>
    /\ inflight' = Resume(r)
    /\ IF outcome = "error"
       THEN /\ lastResp' = [Resp("verify", "clear", r.pl, 500, Unavailable)
                              EXCEPT !.newPasscode = r.newPasscode, !.otp = r.otp]
            /\ UNCHANGED db
       ELSE /\ db' = [db EXCEPT ![r.user[1].URid] =
                         [@ EXCEPT !.ResetOTPHash = None, !.ResetOTPExpiresAt = None]]
            /\ lastResp' = [Resp("verify", "clear", r.pl, 400,
                                 "OTP has expired. Please request a new one.")
                              EXCEPT !.newPasscode = r.newPasscode, !.otp = r.otp]

\* mutant: the update sets the passcode and leaves the OTP in the store
VerifyUpdated_only(r, outcome) ==
    /\ r \in Suspended("verify", "update")
    /\ UNCHANGED <<now, failedAttempts, resendCounts, outbox, session, streak, reqs>>
    /\ inflight' = Resume(r)
    /\ IF outcome = "error"
       THEN /\ lastResp' = [Resp("verify", "update", r.pl, 500, Unavailable)
                              EXCEPT !.newPasscode = r.newPasscode, !.otp = r.otp]
            /\ UNCHANGED db
       ELSE /\ db' = [db EXCEPT ![r.user[1].URid].Passcode = Hash(r.newPasscode)]
            /\ lastResp' = [Resp("verify", "update", r.pl, 200,
                                 "Passcode reset successfully. You can now login with your new passcode.")
                              EXCEPT !.newPasscode = r.newPasscode, !.otp = r.otp]

\* UPDATE ... SET Passcode, ResetOTPHash = NULL, ResetOTPExpiresAt = NULL
VerifyUpdated(r, outcome) ==
    /\ r \in Suspended("verify", "update")
    /\ UNCHANGED <<now, failedAttempts, resendCounts, outbox, session, streak, reqs>>
    /\ inflight' = Resume(r)
    /\ IF outcome = "error"
       THEN /\ lastResp' = [Resp("verify", "update", r.pl, 500, Unavailable)
                              EXCEPT !.newPasscode = r.newPasscode, !.otp = r.otp]
            /\ UNCHANGED db
       ELSE /\ db' = [db EXCEPT ![r.user[1].URid] =
                         [@ EXCEPT !.Passcode = Hash(r.newPasscode),
                                   !.ResetOTPHash = None,
                                   !.ResetOTPExpiresAt = None]]
            /\ lastResp' = [Resp("verify", "update", r.pl, 200,
                                 "Passcode reset successfully. You can now login with your new passcode.")
                              EXCEPT !.newPasscode = r.newPasscode, !.otp = r.otp]

Verify(otps, newPasscodes) ==
    \/ \E username \in Handles, otp \in otps, newPasscode \in newPasscodes :
           VerifyStart(username, otp, newPasscode)
    \/ \E r \in BagToSet(inflight), outcome \in DbOutcomes :
           \E user \in fetchUserByPL(r.pl) : VerifyFetched(r, outcome, user)
    \/ \E r \in BagToSet(inflight), outcome \in DbOutcomes : VerifyCleared(r, outcome)
    \/ \E r \in BagToSet(inflight), outcome \in DbOutcomes : VerifyUpdated(r, outcome)

----------------------------------------------------------------------------
(* POST /reset-passcode (authenticated) *)

\* a token that was not signed with JWT_SECRET
ForgedToken == [JwtSign(MemberURid, MemberPL, 0) EXCEPT !.sig = "other"]

\* a token of the member that has run out
ExpiredToken == [JwtSign(MemberURid, MemberPL, 0) EXCEPT !.exp = 0]

\* an Authorization header
Bearer(token) == [scheme |-> "Bearer", token |-> token]

\* authHeader.startsWith('Bearer ')
IsBearer(auth) == auth # None /\ auth[1].scheme = "Bearer"

\* the Authorization headers a client may send: none, one of another scheme,
\* a forgery, an expired token, the token it kept from its last login
AuthHeaders ==
    {None, Some([scheme |-> "Basic", token |-> ForgedToken]),
     Some(Bearer(ForgedToken)), Some(Bearer(ExpiredToken))}
    \cup {Some(Bearer(session[i])) : i \in DOMAIN session}

\* another member's handle, as a client may put it into a body or a query
HandleOther == <<"T", "I", "1", "/", "9", "9", "9", "9">>

\* what a client may send along as username (or pl): nothing, or HandleOther
Extras == {None, HandleOther}

\* (extra: a username in the body, which the handler does not read)
\* mutant: a new passcode equal to the old one is let through
ResetStart_same(auth, extra, oldPasscode, newPasscode) ==
    LET Reject(status, message) ==
            /\ lastResp' = [Resp("reset", "start", None, status, message)
                              EXCEPT !.passcode = oldPasscode,
                                     !.newPasscode = newPasscode]
            /\ UNCHANGED inflight
    IN  /\ UNCHANGED <<now, failedAttempts, resendCounts, db, outbox, session, streak, reqs>>
        /\ IF ~IsBearer(auth)
           THEN Reject(401, "Authentication required")
           ELSE IF ~JwtVerify(auth[1].token, now)
           THEN Reject(401, "Invalid or expired token")
           ELSE IF ~Truthy(oldPasscode) \/ ~Truthy(newPasscode)
           THEN Reject(400, "Old passcode and new passcode are required")
           ELSE IF Len(newPasscode) < MIN_PASSCODE_LENGTH
           THEN Reject(400, "New passcode must be at least 6 characters")
           ELSE /\ BagCardinality(inflight) < MaxInFlight
                /\ inflight' = Suspend([Req("reset", "fetch", auth[1].token.pl)
                                           EXCEPT !.passcode = oldPasscode,
                                                  !.newPasscode = newPasscode])
                /\ lastResp' = NoResp

ResetStart(auth, extra, oldPasscode, newPasscode) ==
    LET Reject(status, message) ==
            /\ lastResp' = [Resp("reset", "start", None, status, message)
                              EXCEPT !.passcode = oldPasscode,
                                     !.newPasscode = newPasscode]
            /\ UNCHANGED inflight
    IN  /\ UNCHANGED <<now, failedAttempts, resendCounts, db, outbox, session, streak, reqs>>
        /\ IF ~IsBearer(auth)
           THEN Reject(401, "Authentication required")
           ELSE IF ~JwtVerify(auth[1].token, now)
           THEN Reject(401, "Invalid or expired token")
           ELSE IF ~Truthy(oldPasscode) \/ ~Truthy(newPasscode)
           THEN Reject(400, "Old passcode and new passcode are required")
           ELSE IF Len(newPasscode) < MIN_PASSCODE_LENGTH
           THEN Reject(400, "New passcode must be at least 6 characters")
           ELSE IF oldPasscode = newPasscode
           THEN Reject(400, "New passcode must be different from the old passcode")
           ELSE /\ BagCardinality(inflight) < MaxInFlight
                /\ inflight' = Suspend([Req("reset", "fetch", auth[1].token.pl)
                                           EXCEPT !.passcode = oldPasscode,
                                                  !.newPasscode = newPasscode])
                /\ lastResp' = NoResp

\* fetchUserByPL resolves: the old passcode and the phone number check
\* (bcrypt.compare throws on a null hash)
ResetFetched(r, outcome, user) ==
    LET Reject(status, message) ==
            /\ inflight' = Resume(r)
            /\ lastResp' = [Resp("reset", "fetch", r.pl, status, message)
                              EXCEPT !.newPasscode = r.newPasscode]
    IN  /\ r \in Suspended("reset", "fetch")
        /\ UNCHANGED <<now, failedAttempts, resendCounts, db, outbox, session, streak, reqs>>
        /\ IF outcome = "error"
           THEN Reject(500, Unavailable)
           ELSE IF user = None
           THEN Reject(404, "Account not found")
           ELSE IF ~Truthy(user[1].Passcode)
           THEN Reject(500, Unavailable)
           ELSE IF ~BcryptCompare(r.passcode, user[1].Passcode)
           THEN Reject(401, "Invalid passcode")
           ELSE IF IsPhoneNumber(user[1], r.newPasscode)
           THEN Reject(400, "New passcode cannot be your phone number")
           ELSE /\ inflight' = Move(r, [r EXCEPT !.pc = "update", !.user = user])
                /\ lastResp' = NoResp

\* UPDATE ... SET Passcode WHERE URid is applied, or fails
ResetUpdated(r, outcome) ==
    /\ r \in Suspended("reset", "update")
    /\ UNCHANGED <<now, failedAttempts, resendCounts, outbox, session, streak, reqs>>
    /\ inflight' = Resume(r)
    /\ IF outcome = "error"
       THEN /\ lastResp' = [Resp("reset", "update", r.pl, 500, Unavailable)
                              EXCEPT !.newPasscode = r.newPasscode]
            /\ UNCHANGED db
       ELSE /\ db' = [db EXCEPT ![r.user[1].URid].Passcode = Hash(r.newPasscode)]
            /\ lastResp' = [Resp("reset", "update", r.pl, 200, "Passcode reset successfully")
                              EXCEPT !.newPasscode = r.newPasscode]

Reset(oldPasscodes, newPasscodes) ==
    \/ \E auth \in AuthHeaders, extra \in Extras, oldPasscode \in oldPasscodes,
          newPasscode \in newPasscodes :
           ResetStart(auth, extra, oldPasscode, newPasscode)
    \/ \E r \in BagToSet(inflight), outcome \in DbOutcomes :
           \E user \in fetchUserByPL(r.pl) : ResetFetched(r, outcome, user)
    \/ \E r \in BagToSet(inflight), outcome \in DbOutcomes : ResetUpdated(r, outcome)

----------------------------------------------------------------------------
(* POST /change-passcode (authenticated) *)

ChangeFailed == "Failed to change passcode"

\* mutant: a username in the body selects the record
ChangeStart_body(auth, extra, currentPasscode, newPasscode) ==
    LET Reject(status, message) ==
            /\ lastResp' = [Resp("change", "start", None, status, message)
                              EXCEPT !.newPasscode = newPasscode]
            /\ UNCHANGED inflight
        pl == IF Truthy(extra) THEN parsePLFromUsername(extra) ELSE auth[1].token.pl
    IN  /\ UNCHANGED <<now, failedAttempts, resendCounts, db, outbox, session, streak, reqs>>
        /\ IF ~IsBearer(auth)
           THEN Reject(401, "Authentication required")
           ELSE IF ~JwtVerify(auth[1].token, now)
           THEN Reject(401, "Invalid or expired token")
           ELSE IF ~Truthy(currentPasscode) \/ ~Truthy(newPasscode)
           THEN Reject(400, "Current and new passcode are required")
           ELSE IF Len(newPasscode) < MIN_PASSCODE_LENGTH
           THEN Reject(400, "New passcode must be at least 6 characters")
           ELSE /\ BagCardinality(inflight) < MaxInFlight
                /\ inflight' = Suspend([Req("change", "fetch", pl)
                                           EXCEPT !.passcode = currentPasscode,
                                                  !.newPasscode = newPasscode])
                /\ lastResp' = NoResp

\* the token and the body, up to await fetchUserByPL(decoded.pl)
\* (extra: a username in the body, which the handler does not read)
ChangeStart(auth, extra, currentPasscode, newPasscode) ==
    LET Reject(status, message) ==
            /\ lastResp' = [Resp("change", "start", None, status, message)
                              EXCEPT !.newPasscode = newPasscode]
            /\ UNCHANGED inflight
    IN  /\ UNCHANGED <<now, failedAttempts, resendCounts, db, outbox, session, streak, reqs>>
        /\ IF ~IsBearer(auth)
           THEN Reject(401, "Authentication required")
           ELSE IF ~JwtVerify(auth[1].token, now)
           THEN Reject(401, "Invalid or expired token")
           ELSE IF ~Truthy(currentPasscode) \/ ~Truthy(newPasscode)
           THEN Reject(400, "Current and new passcode are required")
           ELSE IF Len(newPasscode) < MIN_PASSCODE_LENGTH
           THEN Reject(400, "New passcode must be at least 6 characters")
           ELSE /\ BagCardinality(inflight) < MaxInFlight
                /\ inflight' = Suspend([Req("change", "fetch", auth[1].token.pl)
                                           EXCEPT !.passcode = currentPasscode,
                                                  !.newPasscode = newPasscode])
                /\ lastResp' = NoResp

\* mutant: a wrong current passcode counts as a failed login
ChangeFetched_counts(r, outcome, user) ==
    LET Reject(status, message) ==
            /\ inflight' = Resume(r)
            /\ lastResp' = [Resp("change", "fetch", r.pl, status, message)
                              EXCEPT !.newPasscode = r.newPasscode]
    IN  /\ r \in Suspended("change", "fetch")
        /\ UNCHANGED <<now, resendCounts, db, outbox, session, reqs>>
        /\ IF outcome = "error"
           THEN Reject(500, ChangeFailed) /\ UNCHANGED <<failedAttempts, streak>>
           ELSE IF user = None
           THEN Reject(404, "User not found") /\ UNCHANGED <<failedAttempts, streak>>
           ELSE IF ~Truthy(user[1].Passcode)
           THEN Reject(500, ChangeFailed) /\ UNCHANGED <<failedAttempts, streak>>
           ELSE IF ~BcryptCompare(r.passcode, user[1].Passcode)
           THEN /\ Reject(401, "Current passcode is incorrect")
                /\ failedAttempts' = incrementFailedAttempts(failedAttempts, r.pl, now)
                /\ UNCHANGED streak
           ELSE /\ inflight' = Move(r, [r EXCEPT !.pc = "update", !.user = user])
                /\ lastResp' = NoResp
                /\ UNCHANGED <<failedAttempts, streak>>

\* fetchUserByPL resolves: the current passcode is compared
\* (bcrypt.compare throws on a null hash)
ChangeFetched(r, outcome, user) ==
    LET Reject(status, message) ==
            /\ inflight' = Resume(r)
            /\ lastResp' = [Resp("change", "fetch", r.pl, status, message)
                              EXCEPT !.newPasscode = r.newPasscode]
    IN  /\ r \in Suspended("change", "fetch")
        /\ UNCHANGED <<now, failedAttempts, resendCounts, db, outbox, session, streak, reqs>>
        /\ IF outcome = "error"
           THEN Reject(500, ChangeFailed)
           ELSE IF user = None
           THEN Reject(404, "User not found")
           ELSE IF ~Truthy(user[1].Passcode)
           THEN Reject(500, ChangeFailed)
           ELSE IF ~BcryptCompare(r.passcode, user[1].Passcode)
           THEN Reject(401, "Current passcode is incorrect")
           ELSE /\ inflight' = Move(r, [r EXCEPT !.pc = "update", !.user = user])
                /\ lastResp' = NoResp

\* UPDATE ... SET Passcode WHERE URid is applied, or fails
ChangeUpdated(r, outcome) ==
    /\ r \in Suspended("change", "update")
    /\ UNCHANGED <<now, failedAttempts, resendCounts, outbox, session, streak, reqs>>
    /\ inflight' = Resume(r)
    /\ IF outcome = "error"
       THEN /\ lastResp' = [Resp("change", "update", r.pl, 500, ChangeFailed)
                              EXCEPT !.newPasscode = r.newPasscode]
            /\ UNCHANGED db
       ELSE /\ db' = [db EXCEPT ![r.user[1].URid].Passcode = Hash(r.newPasscode)]
            /\ lastResp' = [Resp("change", "update", r.pl, 200,
                                 "Passcode changed successfully")
                              EXCEPT !.newPasscode = r.newPasscode]

Change(currentPasscodes, newPasscodes) ==
    \/ \E auth \in AuthHeaders, extra \in Extras,
          currentPasscode \in currentPasscodes, newPasscode \in newPasscodes :
           ChangeStart(auth, extra, currentPasscode, newPasscode)
    \/ \E r \in BagToSet(inflight), outcome \in DbOutcomes :
           \E user \in fetchUserByPL(r.pl) : ChangeFetched(r, outcome, user)
    \/ \E r \in BagToSet(inflight), outcome \in DbOutcomes : ChangeUpdated(r, outcome)

----------------------------------------------------------------------------
(* GET /api/profile (authenticated, read only) behind authenticateToken *)

\* SELECT ... FROM Individual_Personal_Data_Table WHERE IndivID = @pl
Individual_Personal_Data(pl) ==
    IF pl = MemberPL THEN Some([IndivID |-> MemberPL, PhoneNo |-> MemberPhone])
    ELSE None

\* authenticateToken and the handler up to await executeQuery
\* (extra: a pl in the query string, which the handler does not read)
ProfileStart(auth, extra) ==
    LET Reject(status, message) ==
            /\ lastResp' = Resp("profile", "start", None, status, message)
            /\ UNCHANGED inflight
    IN  /\ UNCHANGED <<now, failedAttempts, resendCounts, db, outbox, session, streak, reqs>>
        /\ IF ~IsBearer(auth)
           THEN Reject(401, "Access token required")
           ELSE IF ~JwtVerify(auth[1].token, now)
           THEN Reject(401, "Invalid or expired token")
           ELSE IF ~Truthy(auth[1].token.pl)
           THEN Reject(401, "Invalid token: member identifier missing")
           ELSE /\ BagCardinality(inflight) < MaxInFlight
                /\ inflight' = Suspend(Req("profile", "query", auth[1].token.pl))
                /\ lastResp' = NoResp

\* the query resolves: the profile of the token's member, or none
ProfileFetched(r, outcome) ==
    /\ r \in Suspended("profile", "query")
    /\ UNCHANGED <<now, failedAttempts, resendCounts, db, outbox, session, streak, reqs>>
    /\ inflight' = Resume(r)
    /\ lastResp' =
           IF outcome = "error"
           THEN Resp("profile", "query", r.pl, 500, "Unable to retrieve profile data")
           ELSE IF Individual_Personal_Data(r.pl) = None
           THEN Resp("profile", "query", r.pl, 404, "Profile not found")
           ELSE Resp("profile", "query", Individual_Personal_Data(r.pl)[1].IndivID,
                     200, "data")

Profile ==
    \/ \E auth \in AuthHeaders, extra \in Extras : ProfileStart(auth, extra)
    \/ \E r \in BagToSet(inflight), outcome \in DbOutcomes : ProfileFetched(r, outcome)

----------------------------------------------------------------------------
(* The clock *)

Tick(steps, limit) ==
    /\ \E d \in steps : now + d <= limit /\ now' = now + d
    /\ lastResp' = NoResp
    /\ UNCHANGED <<failedAttempts, resendCounts, db, inflight, outbox, session,
                   streak, reqs>>

\* a minute, or a whole lockout window
TickLogin == Tick({1, RESET_TIME}, MaxTimeLogin)

TickRate == Tick({1, RESEND_WINDOW}, MaxTimeRate)

TickIssue == Tick({1}, MaxTimeIssue)

\* just past a lockout window, or just past a rate-limit window
TickCounters == Tick({RESET_TIME + 1, RESEND_WINDOW + 1}, MaxTimeCounters)

\* half the life of an OTP, or a minute more: a code issued at 0 is still
\* good at OTP_EXPIRY_MINUTES and expired one minute later
TickRecover ==
    Tick({OTP_EXPIRY_MINUTES \div 2, OTP_EXPIRY_MINUTES \div 2 + 1}, MaxTimeRecover)

\* a whole lockout window, or a minute more
TickTrickle == Tick({RESET_TIME, RESET_TIME + 1}, MaxTimeTrickle)

\* just past a lockout window
TickSupport == Tick({RESET_TIME + 1}, MaxTimeSupport)

----------------------------------------------------------------------------
(* The Passcode column written from outside: the routes never set it to    *)
(* NULL, a member whose account is "not activated" is sent to support, and *)
(* support sets or removes the passcode in the table.                      *)

SupportWrites(passcode) ==
    /\ MemberURid \in DOMAIN db
    /\ db[MemberURid].Passcode # passcode
    /\ db' = [db EXCEPT ![MemberURid].Passcode = passcode]
    /\ lastResp' = NoResp
    /\ UNCHANGED <<now, failedAttempts, resendCounts, inflight, outbox, session,
                   streak, reqs>>

\* half the life of an OTP
TickReplace == Tick({OTP_EXPIRY_MINUTES \div 2}, MaxTimeReplace)

\* just past the life of an OTP
TickOnce == Tick({OTP_EXPIRY_MINUTES + 1}, MaxTimeOnce)

----------------------------------------------------------------------------
(* parsePLFromUsername called on its own *)

CallParse(username) ==
    /\ lastResp' = [Resp("parse", "call", parsePLFromUsername(username), 0, "none")
                      EXCEPT !.username = username]
    /\ UNCHANGED <<now, failedAttempts, resendCounts, db, inflight, outbox, session,
                   streak, reqs>>

----------------------------------------------------------------------------
(* fetchUserByPL called on its own, on what parsePLFromUsername returns *)

\* the characters of an identifier: the member's digits, the LIKE wildcards
\* and the separator of the UserName column
IdChars == {"2", "3", "4", "%", "_", ";"}
IdHandles ==
    {<<"A", "/">> \o id : id \in UNION {[1..n -> IdChars] : n \in 1..MaxIdLen}}

\* one call: the query throws, or the first row of the record set comes back
CallFetch(username) ==
    LET pl == parsePLFromUsername(username)
    IN  /\ lastResp = NoResp
        /\ Truthy(pl)
        /\ \E outcome \in DbOutcomes :
              \/ /\ outcome = "error"
                 /\ lastResp' = Resp("fetchUserByPL", "throw", pl, 500, "none")
                                    @@ [user |-> None]
              \/ /\ outcome = "ok"
                 /\ \E user \in fetchUserByPL(pl) :
                       lastResp' = Resp("fetchUserByPL", "return", pl, 0, "none")
                                     @@ [user |-> user]
        /\ UNCHANGED <<now, failedAttempts, resendCounts, db, inflight, outbox,
                       session, streak, reqs>>

----------------------------------------------------------------------------
(* The rate limiter called on its own *)

CallCanResend(pl) ==
    /\ resendCounts' = canResend(resendCounts, pl, now).map
    /\ lastResp' = NoResp
    /\ UNCHANGED <<now, failedAttempts, db, inflight, outbox, session, streak, reqs>>

CallIncrementResendCount(pl) ==
    /\ reqs[pl].n < MaxRequests
    /\ resendCounts' = incrementResendCount(resendCounts, pl, now)
    /\ reqs' = RequestRecorded(pl)
    /\ lastResp' = Resp("incrementResendCount", "call", pl, 0, "none")
    /\ UNCHANGED <<now, failedAttempts, db, inflight, outbox, session, streak>>

----------------------------------------------------------------------------
(* Initial state: empty trackers; the table holds no row for the          *)
(* identifier, or the member's row, activated with PassA or not yet        *)
(* activated; no reset pending.                                            *)

Init ==
    /\ now = 0
    /\ failedAttempts = <<>>
    /\ resendCounts = <<>>
    /\ db \in {<<>>} \cup [{MemberURid} -> [Passcode : {Hash(PassA), None},
                                            Email : {MemberEmail},
                                            ResetOTPHash : {None},
                                            ResetOTPExpiresAt : {None}]]
    /\ inflight = EmptyBag
    /\ lastResp = NoResp
    /\ outbox = [sent |-> 0, code |-> None]
    /\ streak = [pl \in PLs |-> [n |-> 0, last |-> 0, ended |-> 0]]
    /\ session = None
    /\ reqs = [pl \in PLs |-> [n |-> 0, first |-> 0, otps |-> 0]]

\* Login alone, by clients that try PassA and PassB and drop their tokens
NextLogin == Login({PassA, PassB}, {FALSE}) \/ TickLogin

SpecLogin == Init /\ [][NextLogin]_vars

NextRate ==
    \/ \E pl \in PLs : CallCanResend(pl)
    \/ \E pl \in PLs : CallIncrementResendCount(pl)
    \/ TickRate

SpecRate == Init /\ [][NextRate]_vars

\* as Init, or with the member's row without an e-mail address
InitIssue ==
    \/ Init
    \/ /\ now = 0
       /\ failedAttempts = <<>>
       /\ resendCounts = <<>>
       /\ db = [u \in {MemberURid} |-> [Passcode |-> Hash(PassA), Email |-> None,
                                        ResetOTPHash |-> None,
                                        ResetOTPExpiresAt |-> None]]
       /\ inflight = EmptyBag
       /\ lastResp = NoResp
       /\ outbox = [sent |-> 0, code |-> None]
       /\ streak = [pl \in PLs |-> [n |-> 0, last |-> 0, ended |-> 0]]
       /\ session = None
       /\ reqs = [pl \in PLs |-> [n |-> 0, first |-> 0, otps |-> 0]]

\* OTP issuance alone
NextIssue == Forgot(generateOTP) \/ Resend(generateOTP) \/ Issue \/ TickIssue

SpecIssue == InitIssue /\ [][NextIssue]_vars

\* the passcode's ways to change, one request at a time: recovery by OTP,
\* and reset by a logged-in client that knows PassA
OneAtATime == BagCardinality(inflight') <= 1

NextPasscode ==
    \/ Login({PassA}, {TRUE}) /\ OneAtATime
    \/ Forgot({CodeA}) /\ OneAtATime
    \/ Issue /\ OneAtATime
    \/ Verify({CodeA}, {PassB, MemberPhone}) /\ OneAtATime
    \/ Reset({PassA}, {PassB, MemberPhone}) /\ OneAtATime

SpecPasscode == Init /\ [][NextPasscode]_vars

\* no login has failed or is under way / no OTP has been asked for
LoginQuiet ==
    /\ failedAttempts = <<>>
    /\ \A pl \in PLs : streak[pl].n = 0 /\ streak[pl].ended = 0
    /\ \A r \in BagToSet(inflight) : r.flow # "login"
IssueQuiet ==
    /\ resendCounts = <<>>
    /\ \A pl \in PLs : reqs[pl].n = 0
    /\ \A r \in BagToSet(inflight) : r.flow \notin {"forgot", "resend"}

\* the routes that count: the lockout tracker under overlapping logins with
\* the right and a wrong passcode, the rate limiter under overlapping
\* requests for an OTP.  The two trackers are separate Maps written by
\* separate routes; a run exercises one of them at a time.
NextCounters ==
    \/ IssueQuiet /\ Login({PassA, PassB}, {FALSE})
    \/ LoginQuiet /\ Forgot({CodeA})
    \/ LoginQuiet /\ Resend({CodeA})
    \/ LoginQuiet /\ Issue
    \/ TickCounters

SpecCounters == Init /\ [][NextCounters]_vars

\* the parser on every handle, and the routes that take a handle on the
\* handles that name no identifier
NextParse ==
    \/ \E username \in HandleInputs : CallParse(username)
    \/ \E username \in BadHandles : LoginStart(username, PassA)
    \/ \E username \in BadHandles : ForgotStart(username)
    \/ \E username \in BadHandles : ResendStart(username)
    \/ \E username \in BadHandles : VerifyStart(username, CodeA, PassB)

SpecParse == Init /\ [][NextParse]_vars

\* the lookup on every identifier of up to MaxIdLen characters
NextFetch ==
    \E username \in IdHandles : CallFetch(username)

SpecFetch == Init /\ [][NextFetch]_vars

\* the authenticated routes: a member who logs in with PassA, changes the
\* passcode to PassB, resets it to PassA, and reads the profile
NextAuthed ==
    \/ Login({PassA}, {TRUE})
    \/ Change({PassA}, {PassB})
    \/ Reset({PassB}, {PassA})
    \/ Profile

SpecAuthed == Init /\ [][NextAuthed]_vars

\* recovery by OTP over the life of a code: the member asks for a code, the
\* code the mail carries (CodeA) or a guess (CodeB) is presented
NextRecover ==
    \/ Forgot({CodeA})
    \/ Issue
    \/ Verify({CodeA, CodeB}, {PassB})
    \/ TickRecover

SpecRecover == Init /\ [][NextRecover]_vars

\* no failure has been recorded for any identifier at this instant
Patient == \A pl \in PLs : streak[pl].n = 0 \/ streak[pl].last < now

\* a trickle of logins: a client that, once a login of its has failed, waits
\* a lockout window or a minute more before the next
NextTrickle ==
    \/ Patient /\ Login({PassA, PassB}, {FALSE})
    \/ TickTrickle

SpecTrickle == Init /\ [][NextTrickle]_vars

\* logins for a member whose passcode support removes and sets again
NextSupport ==
    \/ Login({PassA, PassB}, {FALSE})
    \/ \E passcode \in {None, Hash(PassA)} : SupportWrites(passcode)
    \/ TickSupport

SpecSupport == Init /\ [][NextSupport]_vars

\* a code is asked for (the mail carries CodeA), asked for again (CodeA once
\* more, or CodeB), and either code is presented; one request at a time
NextReplace ==
    \/ Forgot({CodeA}) /\ OneAtATime
    \/ Resend({CodeA, CodeB}) /\ OneAtATime
    \/ Issue /\ OneAtATime
    \/ Verify({CodeA, CodeB}, {PassB}) /\ OneAtATime
    \/ TickReplace

SpecReplace == Init /\ [][NextReplace]_vars

\* a member who asks for codes over and over and logs in with PassA, one
\* request at a time
NextReissue ==
    \/ Login({PassA}, {FALSE}) /\ OneAtATime
    \/ Forgot(generateOTP) /\ OneAtATime
    \/ Resend(generateOTP) /\ OneAtATime
    \/ Issue /\ OneAtATime
    \/ TickIssue

SpecReissue == Init /\ [][NextReissue]_vars

\* a member who logs in with PassA, asks for reset codes, changes the
\* passcode to PassB and resets it to PassA, one request at a time
NextUntracked ==
    \/ Login({PassA}, {TRUE}) /\ OneAtATime
    \/ Forgot({CodeA}) /\ OneAtATime
    \/ Issue /\ OneAtATime
    \/ Change({PassA}, {PassB}) /\ OneAtATime
    \/ Reset({PassB}, {PassA}) /\ OneAtATime

SpecUntracked == Init /\ [][NextUntracked]_vars

\* the routes with inputs that pass and inputs that fail their validation
\* (a handle without "/", codes of 3 and 7 digits and one with a letter, a
\* new passcode of 3 characters, a new passcode equal to the old one), one
\* request at a time
NextValidate ==
    \/ Login({PassA}, {TRUE}) /\ OneAtATime
    \/ Forgot({CodeA}) /\ OneAtATime
    \/ Issue /\ OneAtATime
    \/ Verify({CodeA, CodeShort, CodeLong, CodeAlpha}, {PassB, PassShort}) /\ OneAtATime
    \/ Change({PassA}, {PassB, PassShort}) /\ OneAtATime
    \/ Reset({PassA}, {PassA, PassB, PassShort}) /\ OneAtATime

SpecValidate == Init /\ [][NextValidate]_vars

\* a server that has just started (empty trackers, nothing sent) in front of
\* a table in any condition: no row, or the member's row with or without a
\* passcode, an e-mail address, a pending OTP (CodeA, good until
\* OTP_EXPIRY_MINUTES); the client may hold a token from before the restart
InitOnce ==
    /\ now = 0
    /\ failedAttempts = <<>>
    /\ resendCounts = <<>>
    /\ db \in {<<>>} \cup
              {[u \in {MemberURid} |->
                   [Passcode |-> p, Email |-> m,
                    ResetOTPHash |-> IF pending THEN Hash(CodeA) ELSE None,
                    ResetOTPExpiresAt |-> IF pending THEN Some(OTP_EXPIRY_MINUTES)
                                                     ELSE None]] :
                  p \in {Hash(PassA), None}, m \in {MemberEmail, None},
                  pending \in BOOLEAN}
    /\ inflight = EmptyBag
    /\ lastResp = NoResp
    /\ outbox = [sent |-> 0, code |-> None]
    /\ streak = [pl \in PLs |-> [n |-> 0, last |-> 0, ended |-> 0]]
    /\ session \in {None, Some(JwtSign(MemberURid, MemberPL, 0))}
    /\ reqs = [pl \in PLs |-> [n |-> 0, first |-> 0, otps |-> 0]]

\* no request has been answered yet, and at most one is under way
Once == (inflight # EmptyBag \/ lastResp = NoResp) /\ OneAtATime

\* one request, of any route, to the server that has just started
NextOnce ==
    \/ Login({PassA, PassB}, {FALSE}) /\ Once
    \/ Forgot({CodeA}) /\ Once
    \/ Resend({CodeB}) /\ Once
    \/ Issue /\ Once
    \/ Verify({CodeA, CodeB}, {PassB}) /\ Once
    \/ Change({PassA}, {PassB}) /\ Once
    \/ Reset({PassA}, {PassB}) /\ Once
    \/ TickOnce /\ Once

SpecOnce == InitOnce /\ [][NextOnce]_vars

----------------------------------------------------------------------------
(* Properties of Login and the lockout tracker (SpecLogin) *)

\* MAX_ATTEMPTS consecutive failures, the latest no more than RESET_TIME ago
LockedOut(pl) ==
    streak[pl].n >= MAX_ATTEMPTS /\ now - streak[pl].last <= RESET_TIME

\* this step lets a new Login for pl past the brute force gate
LoginAdmitted(pl) ==
    \E r \in BagToSet(inflight') :
        /\ r.flow = "login" /\ r.pc = "fetch" /\ r.pl = pl
        /\ CopiesIn(r, inflight') > CopiesIn(r, inflight)

\* this step answers a Login for pl at its gate
LoginAnsweredAtGate(pl) ==
    lastResp'.flow = "login" /\ lastResp'.at = "start" /\ lastResp'.pl = pl

\* this step answers a Login for pl that got past the gate with passcode pw
LoginAnsweredFor(pl, pw) ==
    /\ lastResp'.flow = "login" /\ lastResp'.at \in {"fetch", "compare"}
    /\ lastResp'.pl = pl /\ lastResp'.passcode = pw

IsLockoutResponse(resp) == resp.status = 429 /\ resp.token = None

ActivatedWith(pw) ==
    MemberURid \in DOMAIN db /\ db[MemberURid].Passcode = Hash(pw)

\* C1: after MAX_ATTEMPTS consecutive failed Logins for an identifier, each
\* within the lockout window of the one before, every Login for it that is
\* made within the window is answered at the gate with the lockout response,
\* whatever passcode it carries, and gets no token.
C1_LockedOutRejectsEveryLogin ==
    [][\A pl \in PLs :
          LockedOut(pl) =>
              /\ ~LoginAdmitted(pl)
              /\ LoginAnsweredAtGate(pl) => IsLockoutResponse(lastResp')]_vars

\* a Login with the correct passcode was rejected as locked
C1_Witness ==
    /\ lastResp.flow = "login" /\ lastResp.at = "start"
    /\ IsLockoutResponse(lastResp)
    /\ lastResp.passcode = PassA /\ ActivatedWith(PassA)
    /\ streak[MemberPL].n >= MAX_ATTEMPTS

\* C2 as claimed: the seventh consecutive wrong-passcode Login is itself
\* answered with the lockout response.
C2_SeventhWrongAnsweredLocked ==
    [][\A pl \in PLs, pw \in {PassA, PassB} :
          /\ streak[pl].n = MAX_ATTEMPTS - 1
          /\ now - streak[pl].last <= RESET_TIME
          /\ LoginAnsweredFor(pl, pw) /\ ~ActivatedWith(pw)
          => IsLockoutResponse(lastResp')]_vars

\* C2 as amended: the seventh consecutive wrong-passcode Login is answered
\* with 401 invalid credentials and attemptsRemaining 0, and every Login
\* made after it within RESET_TIME of it is answered with the lockout
\* response, whatever passcode it carries.
C2_SeventhWrongThenLocked ==
    [][\A pl \in PLs :
          /\ \A pw \in {PassA, PassB} :
                /\ streak[pl].n = MAX_ATTEMPTS - 1
                /\ now - streak[pl].last <= RESET_TIME
                /\ LoginAnsweredFor(pl, pw) /\ ~ActivatedWith(pw)
                => /\ lastResp'.status = 401
                   /\ lastResp'.message = "Invalid credentials"
                   /\ lastResp'.attemptsRemaining = Some(0)
                   /\ lastResp'.token = None
                   /\ streak'[pl].n = MAX_ATTEMPTS
          /\ streak[pl].n >= MAX_ATTEMPTS /\ now - streak[pl].last <= RESET_TIME
                => /\ ~LoginAdmitted(pl)
                   /\ LoginAnsweredAtGate(pl) => IsLockoutResponse(lastResp')]_vars

\* a Login was rejected as locked exactly RESET_TIME after the seventh failure
C2_Witness ==
    /\ lastResp.flow = "login" /\ lastResp.at = "start"
    /\ IsLockoutResponse(lastResp)
    /\ streak[MemberPL].n = MAX_ATTEMPTS
    /\ now - streak[MemberPL].last = RESET_TIME
    /\ ActivatedWith(PassA)

IsInvalidCredentials(resp) ==
    resp.flow = "login" /\ resp.status = 401 /\ resp.message = "Invalid credentials"

\* C3: a Login rejected for an unknown identifier or a wrong passcode carries
\* attemptsRemaining = max(0, MAX_ATTEMPTS - failureCount), failureCount
\* being the counter with this failure recorded; after six consecutive
\* failures that is 1.
C3_AttemptsRemaining ==
    IsInvalidCredentials(lastResp) =>
        LET pl == lastResp.pl
        IN  /\ pl \in DOMAIN failedAttempts
            /\ lastResp.attemptsRemaining =
                   Some(Max(0, MAX_ATTEMPTS - failedAttempts[pl].count))
            /\ lastResp.attemptsRemaining = Some(Max(0, MAX_ATTEMPTS - streak[pl].n))
            /\ streak[pl].n = 6 => lastResp.attemptsRemaining = Some(1)

\* the sixth consecutive wrong passcode was just answered
C3_Witness ==
    /\ IsInvalidCredentials(lastResp)
    /\ lastResp.at = "compare"
    /\ streak[lastResp.pl].n = 6
    /\ lastResp.attemptsRemaining = Some(1)

\* C4 (README): once 5 consecutive failed Logins are recorded for an
\* identifier within the window, the next Login is rejected as locked.
C4_LockedAfterFive ==
    [][\A pl \in PLs :
          streak[pl].n >= 5 /\ now - streak[pl].last <= RESET_TIME =>
              /\ ~LoginAdmitted(pl)
              /\ LoginAnsweredAtGate(pl) => IsLockoutResponse(lastResp')]_vars

\* C5: right after a successful Login the identifier's failure count is 0 and
\* its entry is gone, whatever number of failures came before.
C5_SuccessClearsCounter ==
    lastResp.flow = "login" /\ lastResp.status = 200 =>
        /\ lastResp.pl \notin DOMAIN failedAttempts
        /\ getFailedAttempts(failedAttempts, lastResp.pl, now).ret = 0

\* a Login succeeded right after six consecutive failures
C5_Witness ==
    /\ lastResp.flow = "login" /\ lastResp.status = 200
    /\ streak[lastResp.pl].ended = MAX_ATTEMPTS - 1

\* C6: a failure that is recorded more than RESET_TIME after the previous
\* failure leaves the counter at 1.
C6_CountRestartsAfterGap ==
    [][\A pl \in PLs :
          /\ streak[pl].n > 0 /\ now - streak[pl].last > RESET_TIME
          /\ IsInvalidCredentials(lastResp') /\ lastResp'.pl = pl
          => failedAttempts'[pl].count = 1]_vars

\* a failure was recorded after a gap that ended a streak of failures
C6_Witness ==
    /\ IsInvalidCredentials(lastResp)
    /\ streak[lastResp.pl].ended > 0
    /\ streak[lastResp.pl].n = 1
    /\ failedAttempts[lastResp.pl].count = 1

----------------------------------------------------------------------------
(* Properties of the OTP rate limiter (SpecRate) *)

\* C8: canResend allows an identifier that was never seen, with 3 remaining;
\* once 3 requests are recorded for it within one hour, every check made
\* until that hour has elapsed is refused, with 0 remaining.
C8_ThreeRequestsExhaustQuota ==
    \A pl \in PLs :
        LET check == canResend(resendCounts, pl, now)
        IN  /\ reqs[pl].n = 0 =>
                  check.canResend /\ check.remainingResends = MAX_RESENDS_PER_HOUR
            /\ reqs[pl].n >= MAX_RESENDS_PER_HOUR
                  /\ now - reqs[pl].first <= RESEND_WINDOW =>
                  ~check.canResend /\ check.remainingResends = 0

\* the third request is on record and the hour is in its last minute
C8_Witness ==
    \E pl \in PLs :
        /\ reqs[pl].n = MAX_RESENDS_PER_HOUR
        /\ now - reqs[pl].first = RESEND_WINDOW
        /\ ~canResend(resendCounts, pl, now).canResend

\* C9: a request recorded while the window is open leaves windowStart as it
\* is, and once more than an hour has passed since the request that opened
\* the window canResend allows again, with 3 remaining, however many
\* requests were recorded meanwhile.
C9_WindowFixedAtFirstRequest ==
    /\ [][\A pl \in PLs :
             /\ pl \in DOMAIN resendCounts
             /\ now - resendCounts[pl].windowStart <= RESEND_WINDOW
             /\ pl \in DOMAIN resendCounts'
             => resendCounts'[pl].windowStart = resendCounts[pl].windowStart]_vars
    /\ [](\A pl \in PLs :
             reqs[pl].n > 0 /\ now - reqs[pl].first > RESEND_WINDOW =>
                 LET check == canResend(resendCounts, pl, now)
                 IN  check.canResend
                     /\ check.remainingResends = MAX_RESENDS_PER_HOUR)

\* four requests in one hour, the last in its final minutes, the hour now over
\* and the entry not yet swept
C9_Witness ==
    \E pl \in PLs :
        /\ reqs[pl].n > MAX_RESENDS_PER_HOUR
        /\ now - reqs[pl].first > RESEND_WINDOW
        /\ pl \in DOMAIN resendCounts
        /\ resendCounts[pl].count > MAX_RESENDS_PER_HOUR
        /\ canResend(resendCounts, pl, now).canResend

----------------------------------------------------------------------------
(* Notions shared by the properties below *)

\* the requests of a flow that leave the await pc in this step
Left(flow, pc) ==
    {r \in Suspended(flow, pc) : CopiesIn(r, inflight') < CopiesIn(r, inflight)}

HasRow == MemberURid \in DOMAIN db
OtpPending == HasRow /\ Truthy(db[MemberURid].ResetOTPHash)
OtpCleared(d) ==
    d[MemberURid].ResetOTPHash = None /\ d[MemberURid].ResetOTPExpiresAt = None

----------------------------------------------------------------------------
(* Properties of OTP issuance (SpecIssue) *)

\* what the caller receives: the status and the body
Body(resp) == [status |-> resp.status, success |-> resp.success, message |-> resp.message]

\* C13: the answer to a Forgot-Passcode request depends on the rate limiter
\* alone, not on the record: a request the gate stops is answered 429, and
\* every request the gate admits is answered with the same generic
\* acknowledgement (status 200, success, the same message) whether the
\* identifier has no record, a record without an address, or a record the
\* OTP was issued to; only a failing store is answered otherwise (500).
C13_ForgotAnswerIgnoresRecord ==
    [][lastResp'.flow = "forgot" =>
          IF \A pc \in {"fetch", "persist", "notify"} : Left("forgot", pc) = {}
          THEN \/ lastResp'.status = 400 /\ lastResp'.pl = None
               \/ /\ lastResp'.status = 429
                  /\ ~canResend(resendCounts, lastResp'.pl, now).canResend
          ELSE \/ lastResp'.status = 500
               \/ Body(lastResp') = Body(Resp("forgot", "any", None, 200, GenericForgot))
      ]_vars

\* a request for an identifier without a record has just been answered
\* with the generic acknowledgement
C13_Witness ==
    /\ ~HasRow
    /\ lastResp.flow = "forgot"
    /\ Body(lastResp) = Body(Resp("forgot", "any", None, 200, GenericForgot))

\* C16: in Forgot-Passcode and Resend-OTP the OTP e-mail is sent only by a
\* request whose UPDATE of the OTP hash and expiry was applied: a request
\* whose UPDATE fails ends with 500 and sends nothing, a request reaches the
\* send only in the step that stores its hash and expiry, and every e-mail
\* handed to the mail service is handed over by such a request.
C16_NotifyOnlyAfterPersist ==
    [][/\ \A flow \in {"forgot", "resend"} : \A r \in Left(flow, "persist") :
              \/ /\ lastResp'.status = 500
                 /\ UNCHANGED <<db, outbox>>
                 /\ inflight' = Resume(r)
              \/ /\ db'[r.user[1].URid].ResetOTPHash = Hash(r.code)
                 /\ db'[r.user[1].URid].ResetOTPExpiresAt = r.expiresAt
                 /\ db'[r.user[1].URid].Passcode = db[r.user[1].URid].Passcode
                 /\ inflight' = Move(r, [r EXCEPT !.pc = "notify"])
                 /\ UNCHANGED outbox
       /\ \A r2 \in BagToSet(inflight') :
              r2.pc = "notify" /\ CopiesIn(r2, inflight') > CopiesIn(r2, inflight) =>
                  /\ Left(r2.flow, "persist") # {}
                  /\ db'[r2.user[1].URid].ResetOTPHash = Hash(r2.code)
       /\ outbox' # outbox =>
              \E flow \in {"forgot", "resend"} : \E r \in Left(flow, "notify") :
                  outbox' = [sent |-> outbox.sent + 1, code |-> r.code]
      ]_vars

\* the only request made has just ended on a failed UPDATE: nothing is
\* stored and nothing was sent
C16_Witness ==
    /\ lastResp.flow = "forgot" /\ lastResp.at = "persist" /\ lastResp.status = 500
    /\ reqs[MemberPL].n = 1 /\ reqs[MemberPL].otps = 0
    /\ inflight = EmptyBag
    /\ HasRow /\ ~OtpPending
    /\ outbox.sent = 0

\* C7: for each identifier, at most MAX_RESENDS_PER_HOUR OTPs are issued
\* (stored for verification) by Forgot-Passcode and Resend-OTP within one
\* rate-limit window, under any interleaving of requests.
C7_AtMostThreeOtpsPerWindow ==
    \A pl \in PLs :
        now - reqs[pl].first <= RESEND_WINDOW =>
            reqs[pl].otps <= MAX_RESENDS_PER_HOUR

----------------------------------------------------------------------------
(* Properties of passcode updates (SpecPasscode) *)

\* C10: a Verify-OTP or Reset-Passcode request whose newPasscode equals the
\* member's stored phone number is rejected, and the passcode is never set
\* to the phone number.
C10_PhoneNumberNeverAccepted ==
    /\ \A u \in DOMAIN db : db[u].Passcode # Hash(PhoneOf(u))
    /\ lastResp.flow \in {"verify", "reset"}
           /\ lastResp.newPasscode = PhoneOf(MemberURid)
           => ~lastResp.success

----------------------------------------------------------------------------
(* Properties of recovery by OTP (SpecRecover) *)

IsExpired(resp) ==
    /\ resp.flow = "verify" /\ resp.status = 400
    /\ resp.message = "OTP has expired. Please request a new one."

IsNonePending(resp) ==
    /\ resp.flow = "verify" /\ resp.status = 400
    /\ resp.message = "No reset request found. Please request a new OTP."

\* C11: a Verify-OTP that finds the stored OTP past its expiresAt goes on to
\* clear it and, unless the store fails, answers 'expired' with the OTP hash
\* and expiry cleared and the passcode as it was; the OTP then stays cleared
\* until a new one is issued, and while it is cleared a Verify-OTP (with the
\* same or any code) is answered 'none-pending'.
C11_ExpiredOtpIsClearedThenNonePending ==
    [][/\ \A r \in Left("verify", "fetch") :
              OtpPending /\ now > db[MemberURid].ResetOTPExpiresAt[1] =>
                  \/ lastResp'.status = 500
                  \/ \E r2 \in BagToSet(inflight') :
                         r2 = [r EXCEPT !.pc = "clear", !.user = Some(SelectedRow(MemberURid))]
       /\ \A r \in Left("verify", "clear") :
              \/ lastResp'.status = 500 /\ db' = db
              \/ /\ IsExpired(lastResp')
                 /\ lastResp'.otp = r.otp
                 /\ OtpCleared(db')
                 /\ db'[MemberURid].Passcode = db[MemberURid].Passcode
       /\ IsExpired(lastResp') => Left("verify", "clear") # {}
       /\ \A r \in Left("verify", "fetch") :
              HasRow /\ ~OtpPending /\ lastResp'.status # 500 =>
                  IsNonePending(lastResp') /\ lastResp'.otp = r.otp /\ db' = db
       /\ HasRow /\ ~OtpPending /\ Truthy(db'[MemberURid].ResetOTPHash) =>
              reqs'[MemberPL].otps = reqs[MemberPL].otps + 1
      ]_vars

\* a code was issued and expired, the expired outcome cleared it, and the
\* same code presented again has just been answered 'none-pending'
C11_Witness ==
    /\ IsNonePending(lastResp) /\ lastResp.otp = CodeA
    /\ outbox = [sent |-> 1, code |-> CodeA]
    /\ now > OTP_EXPIRY_MINUTES
    /\ reqs[MemberPL].otps = 1
    /\ HasRow /\ db[MemberURid].Passcode = Hash(PassA)

\* C12: while an issued OTP is pending and not past its expiresAt (issue time
\* plus OTP_EXPIRY_MINUTES), a Verify-OTP with that code and a new passcode of
\* at least MIN_PASSCODE_LENGTH characters goes on to the update and, unless
\* the store fails, succeeds: one update sets the passcode hash and clears the
\* OTP hash and expiry.  A Verify-OTP that then finds no OTP pending is
\* answered 'none-pending' and changes nothing.
C12_CorrectOtpResetsPasscodeOnce ==
    [][/\ \A r \in Left("verify", "fetch") :
              /\ OtpPending
              /\ now <= db[MemberURid].ResetOTPExpiresAt[1]
              /\ BcryptCompare(r.otp, db[MemberURid].ResetOTPHash)
              /\ Len(r.newPasscode) >= MIN_PASSCODE_LENGTH
              => \/ lastResp'.status = 500
                 \/ \E r2 \in BagToSet(inflight') :
                        r2 = [r EXCEPT !.pc = "update",
                                       !.user = Some(SelectedRow(MemberURid))]
       /\ \A r \in Left("verify", "update") :
              \/ lastResp'.status = 500 /\ db' = db
              \/ /\ lastResp'.flow = "verify" /\ lastResp'.status = 200
                 /\ lastResp'.success /\ lastResp'.otp = r.otp
                 /\ db'[MemberURid].Passcode = Hash(r.newPasscode)
                 /\ OtpCleared(db')
       /\ lastResp'.flow = "verify" /\ lastResp'.success =>
              Left("verify", "update") # {}
       /\ \A r \in Left("verify", "fetch") :
              HasRow /\ ~OtpPending /\ lastResp'.status # 500 =>
                  /\ IsNonePending(lastResp')
                  /\ UNCHANGED <<db, failedAttempts, resendCounts, outbox>>
      ]_vars

\* the one code issued was used to set the passcode to PassB, and presented
\* again it has just been answered 'none-pending'
C12_Witness ==
    /\ IsNonePending(lastResp) /\ lastResp.otp = CodeA
    /\ outbox = [sent |-> 1, code |-> CodeA]
    /\ reqs[MemberPL].otps = 1
    /\ HasRow /\ db[MemberURid].Passcode = Hash(PassB)
    /\ now <= OTP_EXPIRY_MINUTES

----------------------------------------------------------------------------
(* Non-enumeration in Login (SpecLogin) *)

\* the failures counted against pl that have not expired
LiveCount(pl) ==
    IF pl \in DOMAIN failedAttempts /\ now - failedAttempts[pl].lastAttempt <= RESET_TIME
    THEN failedAttempts[pl].count
    ELSE 0

\* the generic rejection of request r: 401 'Invalid credentials' with the
\* attempts that remain, and the failure counted
GenericRejection(r) ==
    /\ Body(lastResp') = [status |-> 401, success |-> FALSE,
                          message |-> "Invalid credentials"]
    /\ lastResp'.attemptsRemaining =
           Some(Max(0, MAX_ATTEMPTS - (LiveCount(r.pl) + 1)))
    /\ lastResp'.token = None
    /\ failedAttempts' =
           MapSet(failedAttempts, r.pl,
                  [count |-> LiveCount(r.pl) + 1, lastAttempt |-> now])

\* C14: a Login for an identifier without a record and a Login with a wrong
\* passcode for an activated record are rejected alike: the status, the body
\* and the new lockout counter are one and the same function of the lockout
\* state in which the rejection is made.
C14_UnknownAndWrongRejectedAlike ==
    [][/\ \A r \in Left("login", "fetch") :
              ~HasRow /\ lastResp'.status # 500 => GenericRejection(r)
       /\ \A r \in Left("login", "compare") :
              ~BcryptCompare(r.passcode, r.user[1].Passcode) => GenericRejection(r)
      ]_vars

\* an identifier without a record has just been rejected, its fourth
\* failure in a row
C14_Witness ==
    /\ ~HasRow
    /\ IsInvalidCredentials(lastResp)
    /\ lastResp.at = "fetch"
    /\ lastResp.attemptsRemaining = Some(MAX_ATTEMPTS - 4)
    /\ failedAttempts[MemberPL].count = 4

----------------------------------------------------------------------------
(* Non-enumeration in Verify-OTP (SpecRecover) *)

\* C15: Verify-OTP answers with one and the same generic 'invalid OTP'
\* rejection when the identifier has no record, when the record has no OTP
\* pending, and when the code does not match the pending OTP.
C15_VerifyRejectsAlike ==
    [][\A r \in Left("verify", "fetch") :
           /\ lastResp'.status # 500
           /\ \/ ~HasRow
              \/ HasRow /\ ~OtpPending
              \/ /\ OtpPending
                 /\ now <= db[MemberURid].ResetOTPExpiresAt[1]
                 /\ ~BcryptCompare(r.otp, db[MemberURid].ResetOTPHash)
           => Body(lastResp') = [status |-> 400, success |-> FALSE,
                                 message |-> "Invalid OTP"]
      ]_vars

----------------------------------------------------------------------------
(* Identity in the authenticated routes (SpecAuthed) *)

Authenticated == {"change", "reset", "profile"}

\* the client holds a token that verifies; it is the only one there is
HoldsToken == session # None /\ JwtVerify(session[1], now)

\* the row of the table that belongs to identifier pl
RowOf(u, pl) == LikeMatch(<<"%", "/">> \o pl \o <<";", "%">>, UserNameOf(u))

\* C17: Change-Passcode, Reset-Passcode and the profile read work on the
\* record of the identifier in the verified token only: a request of theirs
\* reaches the store only while the client holds a verifying token, and then
\* for that token's identifier, whatever username the request carries along;
\* what they update and what they answer for is that identifier's record;
\* and without a verifying token (no header, another scheme, a forged or an
\* expired token) the request is answered 401 with no store access.
C17_OnlyTokenIdentity ==
    /\ [](\A r \in BagToSet(inflight) :
              r.flow \in Authenticated => HoldsToken /\ r.pl = session[1].pl)
    /\ [][/\ db' # db =>
                 \E flow \in {"change", "reset"} : \E r \in Left(flow, "update") :
                     /\ r.pl = session[1].pl
                     /\ \A u \in DOMAIN db : db'[u] # db[u] => RowOf(u, r.pl)
          /\ lastResp'.flow \in Authenticated /\ lastResp'.pl # None =>
                 HoldsToken /\ lastResp'.pl = session[1].pl
          /\ lastResp'.flow \in Authenticated /\ ~HoldsToken =>
                 lastResp'.status = 401 /\ UNCHANGED <<db, inflight>>
         ]_vars

\* the logged-in member's Change-Passcode has just been applied to the
\* member's own record
C17_Witness ==
    /\ lastResp.flow = "change" /\ lastResp.status = 200
    /\ HoldsToken /\ lastResp.pl = session[1].pl
    /\ HasRow /\ db[MemberURid].Passcode = Hash(PassB)

----------------------------------------------------------------------------
(* Properties of parsePLFromUsername (SpecParse) *)

Parsed == lastResp.flow = "parse"

\* C18: parsePLFromUsername returns null for every handle without a "/" and
\* for every handle with nothing but blanks between its first "/" and the
\* next "/" (or the end); Login, Forgot-Passcode, Resend-OTP and Verify-OTP
\* called with such a handle answer 400 and leave the trackers, the store,
\* the pending requests and the mail service as they were.
C18_BadHandleIsInvalid ==
    /\ [](Parsed /\ lastResp.username \in BadHandles => lastResp.pl = None)
    /\ [][/\ UNCHANGED <<failedAttempts, resendCounts, db, inflight, outbox,
                         streak, reqs>>
          /\ lastResp'.flow \in {"login", "forgot", "resend", "verify"} =>
                 lastResp'.status = 400 /\ lastResp'.pl = None
         ]_vars

\* a handle with a blank after its only "/" has just been parsed
C18_Witness ==
    /\ Parsed
    /\ lastResp.username = <<"A", "/", " ">>
    /\ lastResp.pl = None

\* C19 as stated: for every handle with something other than blanks after
\* its first "/", parsePLFromUsername returns everything after the first "/",
\* trimmed, also when the handle has more than one "/".
C19_EverythingAfterFirstSlash ==
    Parsed /\ FirstSlash(lastResp.username) # 0
           /\ Trim(AfterFirstSlash(lastResp.username)) # <<>>
        => lastResp.pl = Trim(AfterFirstSlash(lastResp.username))

\* C19, amended: for every handle with a "/", parsePLFromUsername returns
\* what stands between the first "/" and the next "/" (or the end), trimmed,
\* and null if that is empty; for a handle with one "/" that is everything
\* after the "/", trimmed, and "TI9875/2432" yields "2432".
C19_SecondSegment ==
    Parsed /\ FirstSlash(lastResp.username) # 0 =>
        LET h == lastResp.username
        IN  /\ lastResp.pl = Trim(SegmentAfterFirstSlash(h))
            /\ FirstSlash(AfterFirstSlash(h)) = 0 =>
                   lastResp.pl = Trim(AfterFirstSlash(h))
            /\ h = HandleMember => lastResp.pl = <<"2", "4", "3", "2">>

\* a handle with two "/" has just been parsed to its second segment
C19_Witness ==
    /\ Parsed
    /\ lastResp.username = <<"A", "/", "A", "/">>
    /\ lastResp.pl = <<"A">>

----------------------------------------------------------------------------
(* The counters under overlapping requests (SpecCounters) *)

\* C20: under any interleaving of the requests for one identifier every
\* recorded failure and every recorded OTP request is counted: as long as a
\* tracker holds an entry, its count is the number of failures (requests)
\* recorded in the entry's window and its time stamp is theirs; and an entry
\* is dropped or counted down only when its window has expired or, for the
\* lockout tracker, on a successful login for the identifier.
C20_NoIncrementLost ==
    /\ [](\A pl \in PLs :
              /\ pl \in DOMAIN failedAttempts =>
                     /\ failedAttempts[pl].count = streak[pl].n
                     /\ failedAttempts[pl].lastAttempt = streak[pl].last
              /\ pl \in DOMAIN resendCounts =>
                     /\ resendCounts[pl].count = reqs[pl].n
                     /\ resendCounts[pl].windowStart = reqs[pl].first)
    /\ [][\A pl \in PLs :
              /\ /\ pl \in DOMAIN failedAttempts
                 /\ \/ pl \notin DOMAIN failedAttempts'
                    \/ failedAttempts'[pl].count <= failedAttempts[pl].count
                 /\ failedAttempts' # failedAttempts
                 => \/ now - failedAttempts[pl].lastAttempt > RESET_TIME
                    \/ /\ lastResp'.flow = "login" /\ lastResp'.status = 200
                       /\ lastResp'.pl = pl
              /\ /\ pl \in DOMAIN resendCounts
                 /\ \/ pl \notin DOMAIN resendCounts'
                    \/ resendCounts'[pl].count <= resendCounts[pl].count
                 /\ resendCounts' # resendCounts
                 => now - resendCounts[pl].windowStart > RESEND_WINDOW
         ]_vars

\* two logins that both passed the gate while the tracker held no entry have
\* both failed: the second is being answered and the count is 2
C20_Witness ==
    /\ IsInvalidCredentials(lastResp)
    /\ MemberPL \in DOMAIN failedAttempts
    /\ failedAttempts[MemberPL] = [count |-> 2, lastAttempt |-> 0]
    /\ streak[MemberPL].n = 2
    /\ now = 0

----------------------------------------------------------------------------
(* The lockout window under a trickle of failures (SpecTrickle) *)

\* C21: the lockout window is anchored at the latest failure: as long as
\* each failed Login for an identifier comes no more than RESET_TIME after the
\* one before, the counter is the number of failures since the last success
\* and each further failure adds one to it and moves lastAttempt to now,
\* however long ago the first of them was.
C21_WindowAnchoredAtLastFailure ==
    /\ [](\A pl \in PLs :
              streak[pl].n > 0 /\ now - streak[pl].last <= RESET_TIME =>
                  /\ pl \in DOMAIN failedAttempts
                  /\ failedAttempts[pl] =
                         [count |-> streak[pl].n, lastAttempt |-> streak[pl].last])
    /\ [][\A pl \in PLs :
              /\ streak[pl].n > 0 /\ now - streak[pl].last <= RESET_TIME
              /\ IsInvalidCredentials(lastResp') /\ lastResp'.pl = pl
              => failedAttempts'[pl] =
                     [count |-> failedAttempts[pl].count + 1, lastAttempt |-> now]
         ]_vars

\* four failures, each RESET_TIME after the one before: the fourth is
\* counted three lockout windows after the first
C21_Witness ==
    /\ IsInvalidCredentials(lastResp)
    /\ now = 3 * RESET_TIME
    /\ MemberPL \in DOMAIN failedAttempts
    /\ failedAttempts[MemberPL] = [count |-> 4, lastAttempt |-> 3 * RESET_TIME]
    /\ streak[MemberPL].n = 4

----------------------------------------------------------------------------
(* The edge of the rate-limit window (SpecRate) *)

\* this step records a request for pl in the rate limiter
Recorded(pl) ==
    lastResp'.flow = "incrementResendCount" /\ lastResp'.pl = pl

NewWindow == [count |-> 1, windowStart |-> now]

\* C22 as stated: a request recorded while now - windowStart < RESEND_WINDOW
\* adds one to the count; a request recorded when now - windowStart has
\* reached RESEND_WINDOW, exactly RESEND_WINDOW included, opens a new
\* window with count 1 and windowStart = now.
C22_NewWindowAtSixtyMinutes ==
    [][\A pl \in PLs :
          Recorded(pl) /\ pl \in DOMAIN resendCounts =>
              IF now - resendCounts[pl].windowStart < RESEND_WINDOW
              THEN resendCounts'[pl] = [resendCounts[pl] EXCEPT !.count = @ + 1]
              ELSE resendCounts'[pl] = NewWindow]_vars

\* C22, amended: a request recorded while now - windowStart <= RESEND_WINDOW,
\* exactly RESEND_WINDOW included, adds one to the count and leaves
\* windowStart; a request recorded when now - windowStart exceeds
\* RESEND_WINDOW, or for an identifier without an entry, opens a new window
\* with count 1 and windowStart = now.
C22_NewWindowAfterSixtyMinutes ==
    [][\A pl \in PLs :
          Recorded(pl) =>
              IF pl \in DOMAIN resendCounts
                 /\ now - resendCounts[pl].windowStart <= RESEND_WINDOW
              THEN resendCounts'[pl] = [resendCounts[pl] EXCEPT !.count = @ + 1]
              ELSE resendCounts'[pl] = NewWindow]_vars

\* a request has just been recorded exactly RESEND_WINDOW after the one that
\* opened the window, and was counted into that window
C22_Witness ==
    \E pl \in PLs :
        /\ lastResp.flow = "incrementResendCount" /\ lastResp.pl = pl
        /\ pl \in DOMAIN resendCounts
        /\ now - resendCounts[pl].windowStart = RESEND_WINDOW
        /\ resendCounts[pl].count = 2

----------------------------------------------------------------------------
(* Login for an identifier without a record (SpecLogin) *)

\* C23: a Login for a well-formed identifier that has no record is rejected
\* with the failure recorded as for a wrong passcode, and once MAX_ATTEMPTS
\* such failures are on record within the window the identifier is locked:
\* no Login for it gets past the gate and each is answered with the lockout
\* response, although there is no account.
C23_UnknownIdentifierLocks ==
    [][~HasRow =>
          /\ \A r \in Left("login", "fetch") :
                 lastResp'.status # 500 =>
                     /\ GenericRejection(r)
                     /\ streak'[r.pl].n = LiveCount(r.pl) + 1
          /\ \A pl \in PLs :
                 LiveCount(pl) >= MAX_ATTEMPTS =>
                     /\ ~LoginAdmitted(pl)
                     /\ LoginAnsweredAtGate(pl) => IsLockoutResponse(lastResp')
      ]_vars

\* the identifier has no record, seven Logins for it have failed, and the
\* next has just been answered with the lockout response
C23_Witness ==
    /\ ~HasRow
    /\ lastResp.flow = "login" /\ lastResp.at = "start"
    /\ lastResp.pl = MemberPL
    /\ IsLockoutResponse(lastResp)
    /\ streak[MemberPL].n = MAX_ATTEMPTS
    /\ failedAttempts[MemberPL].count = MAX_ATTEMPTS

----------------------------------------------------------------------------
(* Login against a record that is not activated (SpecSupport) *)

IsNotActivated(resp) ==
    Body(resp) = [status |-> 401, success |-> FALSE,
                  message |-> "Account not activated. Please contact support."]

\* C24: a Login that finds a record without a passcode hash is answered 401
\* 'Account not activated', with no token, whatever passcode it carries, and
\* the step leaves the lockout tracker as it was: no failure is recorded and
\* the count is not cleared.  On its way in, the request passes the gate,
\* which leaves the tracker as it was too, but for sweeping an entry that
\* has expired.
C24_NotActivatedLeavesCounter ==
    [][/\ \A r \in Left("login", "fetch") :
           HasRow /\ ~Truthy(db[MemberURid].Passcode) /\ lastResp'.status # 500 =>
               /\ IsNotActivated(lastResp')
               /\ lastResp'.token = None
               /\ UNCHANGED <<failedAttempts, streak, session>>
       /\ \A pl \in PLs :
              LoginAdmitted(pl) =>
                  /\ failedAttempts' =
                         IF pl \in DOMAIN failedAttempts /\ LiveCount(pl) = 0
                         THEN MapDelete(failedAttempts, pl)
                         ELSE failedAttempts
                  /\ UNCHANGED streak
      ]_vars

\* a Login has just been rejected as not activated while three failures
\* from the time the record had a passcode are on record, and they still are
C24_Witness ==
    /\ IsNotActivated(lastResp)
    /\ HasRow /\ ~Truthy(db[MemberURid].Passcode)
    /\ MemberPL \in DOMAIN failedAttempts
    /\ failedAttempts[MemberPL].count = 3
    /\ streak[MemberPL].n = 3

----------------------------------------------------------------------------
(* The rate limit in Forgot-Passcode and Resend-OTP (SpecIssue) *)

\* the requests counted against pl in a window that is still open
LiveRequests(pl) ==
    IF pl \in DOMAIN resendCounts
       /\ now - resendCounts[pl].windowStart <= RESEND_WINDOW
    THEN resendCounts[pl].count
    ELSE 0

\* this step lets a new request of the flow for pl past the rate-limit gate
Admitted(flow, pl) ==
    \E r \in BagToSet(inflight') :
        /\ r.flow = flow /\ r.pc = "fetch" /\ r.pl = pl
        /\ CopiesIn(r, inflight') > CopiesIn(r, inflight)

\* C25: the step that lets a Forgot-Passcode request past the rate-limit
\* gate counts it, before the record is looked up; nothing the request does
\* afterwards (no record, no address, an OTP issued, a failing store)
\* touches the count; and with MAX_RESENDS_PER_HOUR requests counted in the
\* open window the gate lets no Forgot-Passcode through and answers 429, so
\* the fourth Forgot-Passcode within a window is rejected.
C25_ForgotCountsAtTheGate ==
    [][\A pl \in PLs :
          /\ Admitted("forgot", pl) =>
                 /\ LiveRequests(pl) < MAX_RESENDS_PER_HOUR
                 /\ pl \in DOMAIN resendCounts'
                 /\ resendCounts'[pl].count = LiveRequests(pl) + 1
                 /\ reqs'[pl].n = LiveRequests(pl) + 1
                 /\ UNCHANGED <<db, outbox>>
          /\ (\E pc \in {"fetch", "persist", "notify"} : Left("forgot", pc) # {})
                 => UNCHANGED resendCounts
          /\ LiveRequests(pl) >= MAX_RESENDS_PER_HOUR =>
                 /\ ~Admitted("forgot", pl)
                 /\ lastResp'.flow = "forgot" /\ lastResp'.pl = pl =>
                        \/ lastResp'.at # "start"
                        \/ lastResp'.status = 429 /\ UNCHANGED resendCounts
      ]_vars

\* the identifier has no record; three Forgot-Passcode requests for it were
\* counted and answered, and the fourth has just been answered 429
C25_Witness ==
    /\ ~HasRow
    /\ lastResp.flow = "forgot" /\ lastResp.at = "start" /\ lastResp.status = 429
    /\ lastResp.pl = MemberPL
    /\ inflight = EmptyBag
    /\ reqs[MemberPL].n = MAX_RESENDS_PER_HOUR
    /\ resendCounts[MemberPL].count = MAX_RESENDS_PER_HOUR
    /\ reqs[MemberPL].otps = 0

\* the rate limiter as the gate leaves it: as it was, but for an entry whose
\* window is over
Swept(pl) ==
    IF pl \in DOMAIN resendCounts /\ LiveRequests(pl) = 0
    THEN MapDelete(resendCounts, pl)
    ELSE resendCounts

\* C26: a Resend-OTP request for an identifier without a record is answered
\* with the generic acknowledgement (200, success, the generic message) and
\* changes nothing: on its way through the gate and at the lookup no request
\* is counted, no row is written and no e-mail is sent.
C26_ResendWithoutRecordChangesNothing ==
    [][~HasRow =>
          /\ \A pl \in PLs :
                 Admitted("resend", pl) =>
                     /\ resendCounts' = Swept(pl)
                     /\ UNCHANGED <<reqs, db, outbox>>
          /\ \A r \in Left("resend", "fetch") :
                 lastResp'.status # 500 =>
                     /\ Body(lastResp') = Body(Resp("resend", "any", None, 200, GenericResend))
                     /\ inflight' = Resume(r)
                     /\ UNCHANGED <<resendCounts, reqs, db, outbox>>
      ]_vars

\* the identifier has no record; two Forgot-Passcode requests were counted
\* for it, and a Resend-OTP has just been acknowledged with the count still 2
C26_Witness ==
    /\ ~HasRow
    /\ lastResp.flow = "resend" /\ lastResp.at = "fetch"
    /\ Body(lastResp) = Body(Resp("resend", "any", None, 200, GenericResend))
    /\ reqs[MemberPL].n = 2
    /\ resendCounts[MemberPL].count = 2
    /\ outbox.sent = 0

IsNoActiveRequest(resp) ==
    Body(resp) = [status |-> 200, success |-> FALSE,
                  message |-> "No active reset request found. Please use forgot-passcode first."]

----------------------------------------------------------------------------
(* A resent OTP takes the place of the one before (SpecReplace) *)

IsInvalidOtp(resp) ==
    Body(resp) = [status |-> 400, success |-> FALSE, message |-> "Invalid OTP"]

\* C28: a Resend-OTP whose UPDATE is applied puts the hash of its newly
\* generated code and its own expiry (the time of issue plus
\* OTP_EXPIRY_MINUTES) in the place of the stored ones, so that of all codes
\* only the new one matches the stored hash; and a Verify-OTP that finds an
\* OTP pending and not expired is rejected as 'Invalid OTP', with the store
\* untouched, for every code but the one stored last, and goes on to the
\* passcode update for that one.  (A previously issued code is a code other
\* than the new one: generateOTP may return the same six digits twice, and
\* then the old code is the new code.)
C28_ResendReplacesPendingOtp ==
    [][/\ \A r \in BagToSet(inflight') :
              /\ r.flow = "resend" /\ r.pc = "persist"
              /\ CopiesIn(r, inflight') > CopiesIn(r, inflight)
              => r.expiresAt = Some(now + OTP_EXPIRY_MINUTES) /\ r.code \in generateOTP
       /\ \A r \in Left("resend", "persist") :
              lastResp'.status # 500 =>
                  LET row == db'[r.user[1].URid]
                  IN  /\ row.ResetOTPHash = Hash(r.code)
                      /\ row.ResetOTPExpiresAt = r.expiresAt
                      /\ \A code \in generateOTP :
                             BcryptCompare(code, row.ResetOTPHash) <=> code = r.code
       /\ \A r \in Left("verify", "fetch") :
              /\ OtpPending /\ now <= db[MemberURid].ResetOTPExpiresAt[1]
              /\ lastResp'.status # 500
              => IF BcryptCompare(r.otp, db[MemberURid].ResetOTPHash)
                 THEN /\ lastResp' = NoResp
                      /\ \E r2 \in Suspended("verify", "update")' : r2.otp = r.otp
                 ELSE IsInvalidOtp(lastResp') /\ UNCHANGED db
      ]_vars

\* CodeA was issued and mailed, CodeB was issued in its place and mailed
\* five minutes into the run, and a Verify-OTP with CodeA, which would still
\* have been good for some minutes, has just been rejected as invalid
C28_Witness ==
    /\ IsInvalidOtp(lastResp) /\ lastResp.otp = CodeA
    /\ OtpPending /\ db[MemberURid].ResetOTPHash = Hash(CodeB)
    /\ db[MemberURid].ResetOTPExpiresAt = Some(OTP_EXPIRY_MINUTES \div 2 + OTP_EXPIRY_MINUTES)
    /\ outbox = [sent |-> 2, code |-> CodeB]
    /\ reqs[MemberPL].otps = 2
    /\ now < OTP_EXPIRY_MINUTES

----------------------------------------------------------------------------
(* What issuing an OTP writes (SpecReissue) *)

\* C29: the UPDATE of Forgot-Passcode and of Resend-OTP writes the row's OTP
\* hash and OTP expiry and nothing else, the expiry being the time the code
\* was generated plus OTP_EXPIRY_MINUTES; no other step of theirs writes the
\* row; so the passcode hash stays what it was, and a Login with the member's
\* passcode succeeds whatever number of codes has been issued.
C29_IssuanceWritesOtpColumnsOnly ==
    [][/\ \A r \in BagToSet(inflight') :
              /\ r.flow \in {"forgot", "resend"} /\ r.pc = "persist"
              /\ CopiesIn(r, inflight') > CopiesIn(r, inflight)
              => r.expiresAt = Some(now + OTP_EXPIRY_MINUTES)
       /\ \A flow \in {"forgot", "resend"} : \A r \in Left(flow, "persist") :
              lastResp'.status # 500 =>
                  db' = [db EXCEPT ![r.user[1].URid].ResetOTPHash = Hash(r.code),
                                   ![r.user[1].URid].ResetOTPExpiresAt = r.expiresAt]
       /\ db' # db =>
              \E flow \in {"forgot", "resend"} : Left(flow, "persist") # {}
       /\ HasRow => HasRow' /\ db'[MemberURid].Passcode = db[MemberURid].Passcode
       /\ \A r \in Left("login", "compare") :
              r.passcode = PassA /\ ActivatedWith(PassA) =>
                  /\ lastResp'.status = 200
                  /\ lastResp'.token # None
      ]_vars

\* three codes have been stored for the member, one is pending, and a Login
\* with PassA has just succeeded
C29_Witness ==
    /\ lastResp.flow = "login" /\ lastResp.status = 200
    /\ lastResp.passcode = PassA
    /\ OtpPending
    /\ reqs[MemberPL].otps = MAX_RESENDS_PER_HOUR
    /\ db[MemberURid].Passcode = Hash(PassA)

----------------------------------------------------------------------------
(* Change-Passcode and Reset-Passcode leave the trackers alone (SpecUntracked) *)

\* this step is a step of a request of the flow: it answers one, or lets one
\* in, or takes one on
StepOf(flow) ==
    \/ lastResp'.flow = flow
    \/ \E r \in BagToSet(inflight) \cup BagToSet(inflight') :
           r.flow = flow /\ CopiesIn(r, inflight') # CopiesIn(r, inflight)

\* C30: a Change-Passcode whose currentPasscode does not match the stored
\* hash is answered 401 'Current passcode is incorrect' and leaves the row
\* as it was; and no step of a Change-Passcode or a Reset-Passcode request,
\* whatever its outcome, changes the lockout tracker or the rate limiter.
C30_ChangeAndResetLeaveTrackers ==
    [][/\ \A r \in Left("change", "fetch") :
              /\ HasRow /\ Truthy(db[MemberURid].Passcode)
              /\ ~BcryptCompare(r.passcode, db[MemberURid].Passcode)
              /\ lastResp'.status # 500
              => /\ Body(lastResp') = [status |-> 401, success |-> FALSE,
                                       message |-> "Current passcode is incorrect"]
                 /\ inflight' = Resume(r)
                 /\ UNCHANGED db
       /\ StepOf("change") \/ StepOf("reset") =>
              UNCHANGED <<failedAttempts, resendCounts, streak, reqs>>
      ]_vars

\* the passcode is PassB, a Login with PassA has failed and a reset code was
\* asked for, so both trackers hold an entry; a Change-Passcode with PassA
\* as the current passcode has just been rejected
C30_Witness ==
    /\ lastResp.flow = "change" /\ lastResp.status = 401
    /\ lastResp.message = "Current passcode is incorrect"
    /\ HasRow /\ db[MemberURid].Passcode = Hash(PassB)
    /\ MemberPL \in DOMAIN failedAttempts /\ failedAttempts[MemberPL].count = 1
    /\ MemberPL \in DOMAIN resendCounts /\ resendCounts[MemberPL].count = 1

----------------------------------------------------------------------------
(* Validation before the store (SpecValidate) *)

\* C31: a Reset-Passcode whose oldPasscode equals its newPasscode is rejected
\* before the record is looked up (with 'New passcode must be different from
\* the old passcode' once the token and the length have passed), no such
\* request ever waits on the store, and the rejection leaves the row as it
\* was, also when oldPasscode is the member's current passcode.
C31_ResetToSamePasscodeRejected ==
    [][/\ /\ lastResp'.flow = "reset"
          /\ lastResp'.passcode # None
          /\ lastResp'.passcode = lastResp'.newPasscode
          => /\ lastResp'.at = "start"
             /\ lastResp'.status \in {400, 401}
             /\ lastResp'.status = 400
                    /\ Len(lastResp'.newPasscode) >= MIN_PASSCODE_LENGTH
                => lastResp'.message =
                       "New passcode must be different from the old passcode"
             /\ UNCHANGED <<db, inflight, failedAttempts, resendCounts>>
       /\ \A r \in BagToSet(inflight') :
              r.flow = "reset" => r.passcode # r.newPasscode
      ]_vars

\* the logged-in member, whose passcode is PassA, has just been refused a
\* reset from PassA to PassA
C31_Witness ==
    /\ lastResp.flow = "reset" /\ lastResp.status = 400
    /\ lastResp.message = "New passcode must be different from the old passcode"
    /\ lastResp.passcode = PassA /\ lastResp.newPasscode = PassA
    /\ ActivatedWith(PassA)
    /\ HoldsToken

IsValidationRejection(resp) ==
    /\ resp.at = "start" /\ resp.status = 400
    /\ resp.message \in {"Invalid username format. Expected: IPPIS/PL",
                          "Invalid username format",
                          "Invalid OTP format. Must be 6 digits.",
                          "New passcode must be at least 6 characters"}

\* C32: in every route a rejection for a malformed handle, a code that is
\* not exactly six digits or a new passcode of fewer than six characters is
\* given in the step that receives the request, which leaves the store, the
\* trackers, the mail service and the requests waiting on the store as they
\* were; and no request with such an input ever waits on the store.
C32_ValidationBeforeStore ==
    [][/\ IsValidationRejection(lastResp') =>
              UNCHANGED <<db, failedAttempts, resendCounts, inflight, outbox,
                          streak, reqs, session>>
       /\ lastResp'.flow = "verify" /\ lastResp'.at = "start" =>
              \/ lastResp'.pl = None
              \/ ~IsOtpFormat(lastResp'.otp)
              \/ Len(lastResp'.newPasscode) < MIN_PASSCODE_LENGTH
       /\ \A r \in BagToSet(inflight') :
              /\ r.pl # None
              /\ r.flow = "verify" => IsOtpFormat(r.otp)
              /\ r.flow \in {"verify", "change", "reset"} =>
                     Len(r.newPasscode) >= MIN_PASSCODE_LENGTH
      ]_vars

\* an OTP is pending and both trackers hold an entry; a Verify-OTP with a
\* code of three digits has just been rejected
C32_Witness ==
    /\ lastResp.flow = "verify"
    /\ lastResp.message = "Invalid OTP format. Must be 6 digits."
    /\ lastResp.otp = CodeShort
    /\ OtpPending
    /\ MemberPL \in DOMAIN failedAttempts
    /\ MemberPL \in DOMAIN resendCounts

----------------------------------------------------------------------------
(* A failing store (SpecOnce) *)

\* C33: a request that is answered 500 because the store failed has changed
\* nothing: after the only request made to a server that has just started
\* is answered 500, the lockout tracker and the rate limiter are empty as
\* before it and nothing was sent; the step that answers 500 leaves the
\* table as it is, and a write to the table is the last the request asks of
\* the store.
C33_StoreFailureLeavesNoTrace ==
    /\ [](lastResp.status = 500 =>
              /\ failedAttempts = <<>>
              /\ resendCounts = <<>>
              /\ outbox.sent = 0)
    /\ [][/\ lastResp'.status = 500 => UNCHANGED db
          /\ db' # db =>
                 \A r \in BagToSet(inflight') : r.pc = "notify"
         ]_vars

----------------------------------------------------------------------------
(* The lockout under overlapping logins (SpecLogin) *)

\* C34: for an activated record, the wrong passcodes compared with the
\* stored hash in a row, each within RESET_TIME of the one before and with
\* no successful login in between, never number more than MAX_ATTEMPTS,
\* however the Login requests overlap.
C34_AtMostSevenWrongCompared ==
    \A pl \in PLs :
        HasRow /\ Truthy(db[MemberURid].Passcode) => streak[pl].n <= MAX_ATTEMPTS

\* C35: no Login is answered with a token, and none clears the lockout
\* entry, in a step taken while isBlocked is true of its identifier,
\* however the Login requests overlap.
C35_NoTokenWhileLocked ==
    [][\A pl \in PLs :
          isBlocked(failedAttempts, pl, now).ret =>
              /\ ~(lastResp'.flow = "login" /\ lastResp'.pl = pl
                                            /\ lastResp'.token # None)
              /\ pl \in DOMAIN failedAttempts'
      ]_vars

----------------------------------------------------------------------------
(* Recovery under overlapping requests (SpecRecover) *)

\* C36: an OTP authorizes one passcode update: a Verify-OTP is answered 200
\* and writes its passcode only in a step in which the OTP it carries is
\* still pending, so that of the requests that carry the same code at most
\* one succeeds, however they overlap.
C36_OneOtpOneUpdate ==
    [][\A r \in Left("verify", "update") :
           lastResp'.status = 200 =>
               /\ OtpPending
               /\ BcryptCompare(r.otp, db[MemberURid].ResetOTPHash)
      ]_vars

\* C37: the UPDATE by which Verify-OTP clears an expired OTP removes no OTP
\* that is unexpired when it is applied: if it changes the row, the OTP it
\* removes has expired.
C37_ClearSparesFreshOtp ==
    [][\A r \in Left("verify", "clear") :
           db' # db =>
               /\ OtpPending
               /\ now > db[MemberURid].ResetOTPExpiresAt[1]
      ]_vars

----------------------------------------------------------------------------
(* Issuance under overlapping requests (SpecIssue) *)

\* C38: when the requests for an OTP have all completed, the OTP hash in the
\* store is that of the code in the e-mail sent last, however the requests
\* overlapped.
C38_LastMailedCodeVerifies ==
    inflight = EmptyBag /\ outbox.sent > 0 /\ OtpPending =>
        BcryptCompare(outbox.code, db[MemberURid].ResetOTPHash)

----------------------------------------------------------------------------
(* The lookup by identifier (SpecFetch) *)

\* the identifier in a UserName of the form IPPIS/PL;EMAIL
StoredPL(userName) == Split(Split(userName, "/")[2], ";")[1]

\* C39: whatever identifier the parser hands over, a row that fetchUserByPL
\* returns is the row of that identifier.
C39_FetchReturnsRequestedMember ==
    lastResp.flow = "fetchUserByPL" /\ lastResp.at = "return" /\ lastResp.user # None =>
        StoredPL(lastResp.user[1].UserName) = lastResp.pl

----------------------------------------------------------------------------
(* The end of a lockout (SpecLogin) *)

\* MAX_ATTEMPTS or more consecutive failures, the latest more than RESET_TIME
\* ago, and none recorded since
LockEnded(pl) ==
    streak[pl].n >= MAX_ATTEMPTS /\ now - streak[pl].last > RESET_TIME

\* C40: once more than RESET_TIME has passed since the last failure recorded
\* for a locked identifier, isBlocked is false for it, a Login for it is let
\* past the gate, and a Login with the passcode of the record is answered
\* with a token unless the store fails; a Login that is rejected at the gate
\* changes neither the entry nor the time the lock ends.
C40_LockoutEnds ==
    /\ [](\A pl \in PLs :
             LockEnded(pl) => ~isBlocked(failedAttempts, pl, now).ret)
    /\ [][\A pl \in PLs :
             /\ LockEnded(pl) =>
                    /\ ~LoginAnsweredAtGate(pl)
                    /\ \A pw \in {PassA, PassB} :
                          LoginAnsweredFor(pl, pw) /\ ActivatedWith(pw)
                              /\ lastResp'.status # 500
                          => lastResp'.status = 200 /\ lastResp'.token # None
             /\ LoginAnsweredAtGate(pl) /\ IsLockoutResponse(lastResp') =>
                    /\ failedAttempts' = failedAttempts
                    /\ streak' = streak
          ]_vars

\* a Login with the member's passcode is past the gate, which has swept the
\* entry of a lockout that ended
C40_Witness ==
    /\ LockEnded(MemberPL) /\ ActivatedWith(PassA)
    /\ MemberPL \notin DOMAIN failedAttempts
    /\ BagCardinality(inflight) = 1
    /\ \E r \in BagToSet(inflight) :
          r.flow = "login" /\ r.pc = "fetch" /\ r.pl = MemberPL /\ r.passcode = PassA

====
